---- MODULE Spec2Model ----
(* Model of the article parser: the fetch orchestrator (parseArticle),     *)
(* the browser automation controller (fetchWithPuppeteer) and the embed    *)
(* detector of src/lib/parseArticle.js.                                    *)
(*                                                                         *)
(* Strings of the program are modelled as sequences of tokens; the test    *)
(* s.includes(t) of the code is the test that token t occurs in s.         *)
EXTENDS Integers, Sequences, FiniteSets, TLC

VARIABLES
    env,        \* names of the environment variables that are set
    installed,  \* which automation package require() can load
    calls,      \* the parseArticle calls in progress
    st,         \* per call: the locals of parseArticle and fetchWithPuppeteer
    sessions    \* the browser sessions launched so far: [owner, state]

vars == <<env, installed, calls, st, sessions>>

(* The fields of st[c]:                                                    *)
(*   url            the argument of parseArticle                           *)
(*   pc             position of parseArticle                               *)
(*   html           parseArticle's local html                              *)
(*   err            the error parseArticle threw: [kind, msg]              *)
(*   plainErr       the error of the plain attempt: [statusCode, msg]      *)
(*   plainAttempts  calls of fetchWithHeaders                              *)
(*   puppeteerCalls calls of fetchWithPuppeteer                            *)
(*   rpc            position of fetchWithPuppeteer                         *)
(*   browser        the local `browser`: a session number, 0 if undefined  *)
(*   launches, closeCalls   sessions launched, calls of browser.close()    *)
(*   status         response.status() of the navigation                    *)
(*   isCloudflareChallenge, challengeCompleted   the locals of that name   *)
(*   elapsed        Date.now() - startTime, in seconds                     *)
(*   pollAt         elapsed when the last poll of the loop began, 0 if none *)
(*   timedOut       the challenge loop ended on its time guard             *)
(*   finalBody      the body text the final check of line 251 saw          *)
(*   page           what the last page.evaluate() saw                      *)
(*   rerr           the message fetchWithPuppeteer throws, <<>> if none    *)
(*   captured       what page.content() returned                           *)
(*   swallowed      an exception of a best-effort step was caught          *)
(*   raised         the step of the challenge handling that threw, if any  *)
(*   nav            the options page.goto was called with, if it was       *)
(*   hasUrl         the body of the request to the web server has a url    *)
(*   invoked        the web server has called parseArticle                 *)
(*   res            the response of the web server or of the serverless    *)
(*                  handler: status and JSON body                           *)
(*   fetched        the serverless handler got the page with its own fetch  *)
(*   sel            selectors the modal scan has tried                     *)
(*   closeClicks    calls of closeButton.click() that resolved             *)
(*   returned       how fetchWithPuppeteer settled: "no", "html", "error"  *)
(*   doc            the document parsed from html                          *)
(*   embeds         parseArticle's embeds array                            *)
(*   foundTweetIds  parseArticle's set of that name                        *)
(*   article        what reader.parse() returned: <<>> for null, else <<a>> *)
(*   result         what parseArticle returned: <<>> if nothing, else <<r>> *)

-----------------------------------------------------------------------------
(* Strings *)

None == "none"

\* String.prototype.includes on token sequences
Includes(s, t) == \E i \in DOMAIN s : s[i] = t

\* template-literal rendering of a status code
StatusStr(s) ==
    CASE s = 200 -> "200"
      [] s = 403 -> "403"
      [] s = 404 -> "404"
      [] s = 500 -> "500"
      [] s = 503 -> "503"

\* response.statusText of the servers of the model
StatusText(s) ==
    CASE s = 200 -> "OK"
      [] s = 403 -> "Forbidden"
      [] s = 404 -> "Not Found"
      [] s = 500 -> "Internal Server Error"
      [] s = 503 -> "Service Unavailable"

-----------------------------------------------------------------------------
(* Module initialisation: isServerless and puppeteer *)

EnvNames == {"AWS_LAMBDA_FUNCTION_NAME", "NETLIFY", "VERCEL", "NETLIFY_DEV"}

\* the environments the model starts in
Envs == {{}, {"NETLIFY"}, {"NETLIFY_DEV"}, {"AWS_LAMBDA_FUNCTION_NAME"},
         {"VERCEL"}}

\* require() outcome: puppeteer-extra with stealth, plain puppeteer, neither
Packages == {"puppeteer-extra", "puppeteer", None}

isServerless == env \cap EnvNames # {}

puppeteer_Unconditional == installed

\* lines 15-36: the driver is required only outside serverless environments
puppeteer == IF isServerless THEN None ELSE installed

\* the isServerless local to fetchWithPuppeteer
renderIsServerless ==
    env \cap {"AWS_LAMBDA_FUNCTION_NAME", "NETLIFY", "VERCEL"} # {}

timeout == IF renderIsServerless THEN 20000 ELSE 30000

waitUntil == IF renderIsServerless THEN "domcontentloaded" ELSE "networkidle2"

-----------------------------------------------------------------------------
(* URLs: a scheme, a host and a path; new URL(url) throws a TypeError for  *)
(* a string without a scheme and for a special scheme without a host.      *)

Urls == { [scheme |-> "https", host |-> "example.com", path |-> "/post"],
          [scheme |-> "", host |-> "example.com", path |-> "/post"],
          [scheme |-> "https", host |-> "", path |-> ""] }

UrlParses(u) == u.scheme # "" /\ u.host # ""

requiresBrowserRendering(u) ==
    \E d \in {"medium.com", "substack.com", "dev.to"} : u.host = d

-----------------------------------------------------------------------------
(* The plain attempt: fetchWithHeaders *)

PlainStatuses == {200, 403, 404, 500, 503}

\* messages of a transport-level failure of fetch()
TransportMsgs == { <<"request failed, reason: ", "ECONNREFUSED">>,
                   <<"request failed, reason: ", "Forbidden">> }

\* the error fetchWithHeaders throws for a response that is not ok
HttpFailure(s) ==
    [statusCode |-> StatusStr(s),
     msg |-> <<"Failed to fetch URL", ": ", StatusText(s)>>]

TransportFailure(m) == [statusCode |-> None, msg |-> m]

PlainFailures == { HttpFailure(s) : s \in PlainStatuses \ {200} }
                 \cup { TransportFailure(m) : m \in TransportMsgs }

PlainHtmls == {"plain-html"}

isBlocked(error) ==
    \/ error.statusCode = "403"
    \/ error.statusCode = "500"
    \/ Includes(error.msg, "Forbidden")
    \/ Includes(error.msg, "403")
    \/ Includes(error.msg, "500")

NoError == [kind |-> None, msg |-> <<>>]

NoPlainErr == [statusCode |-> None, msg |-> <<>>]


-----------------------------------------------------------------------------
(* The browser automation controller: fetchWithPuppeteer *)

\* seconds; the code counts milliseconds
maxWaitTime == 30

\* the delay at the head of each iteration of the challenge loop
PollDelay == 2

\* the delay after the simulated activity that ends an iteration
ActivityDelay == 1

\* upper bound on the seconds a page.evaluate() or mouse.move() may take
MaxOverhead == 1

\* what the body text of a page can say; Sub gives the marker strings a
\* phrase contains as substrings
Phrases == {"article text", "cloudflare", "checking your browser",
            "please wait", "ddos protection by cloudflare", "ray id",
            "verify you are human", "error 500"}

Sub(p) ==
    CASE p = "ddos protection by cloudflare" ->
             {"ddos protection by cloudflare", "ddos protection", "cloudflare"}
      [] p = "error 500" -> {"error 500", "500"}
      [] OTHER -> {p}

\* bodyText.includes(m)
BodyHas(pg, m) == m \in Sub(pg.body)

\* what one page.evaluate() can observe: the body text, whether the title
\* has "just a moment", whether an article-shaped element is present and
\* whether location.href differs from the requested URL
Pages ==
    { pg \in [body : Phrases, justAMoment : BOOLEAN, hasContent : BOOLEAN,
              urlChanged : BOOLEAN] :
        pg.body = "article text" \/ (~pg.justAMoment /\ ~pg.urlChanged) }

NoPage == [body |-> "article text", justAMoment |-> FALSE,
           hasContent |-> FALSE, urlChanged |-> FALSE]

\* lines 158-167
detectsChallenge(pg) ==
    \/ BodyHas(pg, "cloudflare")
    \/ BodyHas(pg, "checking your browser")
    \/ BodyHas(pg, "please wait")
    \/ BodyHas(pg, "ddos protection")
    \/ BodyHas(pg, "ray id")
    \/ pg.justAMoment

\* lines 215-220
stillChallenged(pg) ==
    \/ BodyHas(pg, "checking your browser")
    \/ BodyHas(pg, "please wait")
    \/ BodyHas(pg, "ddos protection by cloudflare")
    \/ BodyHas(pg, "challenges.cloudflare.com")
    \/ BodyHas(pg, "verify you are human")
    \/ pg.justAMoment

loopExit_IgnoreMarkers(pg) == pg.hasContent \/ pg.urlChanged

\* lines 232-242: the two successful exits of the loop
loopExit(pg) ==
    \/ ~stillChallenged(pg) /\ pg.hasContent
    \/ pg.urlChanged /\ ~stillChallenged(pg)

finalCheck_Short(pg) ==
    \/ BodyHas(pg, "cloudflare")
    \/ BodyHas(pg, "verify you are human")

\* lines 251-256
finalCheck(pg) ==
    \/ BodyHas(pg, "cloudflare")
    \/ BodyHas(pg, "checking your browser")
    \/ BodyHas(pg, "verify you are human")

\* document.body.innerText.substring(0, 500).substring(0, 200)
Snippet(pg) == IF "500" \in Sub(pg.body) THEN <<pg.body, "500">> ELSE <<pg.body>>

\* messages a browser-driver primitive can throw
DriverMsgs == { <<"Protocol error: Target closed">>,
                <<"Navigation timeout of ", "30000", " ms exceeded">> }

NavStatuses == {200, 403, 500}

RenderedHtmls == {"rendered-html-1", "rendered-html-2"}

ChallengeTimeoutMsg(pg) ==
    <<"Cloudflare challenge detected but did not complete in time. ",
      "Page content: ">> \o Snippet(pg)

HttpErrorMsg(s, pg) ==
    <<"HTTP ", StatusStr(s), ": ", StatusText(s), ". Page content: ">>
        \o Snippet(pg)

\* lines 379-389: the outer catch wraps every error of the try block
Wrapped(m) ==
    <<"Puppeteer failed: ">> \o m \o
    (IF renderIsServerless THEN <<"Serverless environment detected">> ELSE <<>>)

isAntiBot_HttpOnly(m) == Includes(m, "HTTP 500")

\* line 487: the test on the message of the browser-automation error
isAntiBot(m) == Includes(m, "500") \/ Includes(m, "HTTP 500")

-----------------------------------------------------------------------------
(* Errors parseArticle throws; kind names the throw statement *)

InvalidUrl == [kind |-> "InvalidUrl", msg |-> <<"Invalid URL format">>]

\* line 501: the plain error itself is re-thrown
FetchFailed(e) == [kind |-> "FetchFailed", msg |-> e.msg]

AutomationUnavailable_LocalFlag(e) ==
    [kind |-> "AutomationUnavailable",
     msg |-> <<"Failed to fetch URL", ": ">> \o e.msg \o
             (IF renderIsServerless
              THEN <<"not available in serverless environments">>
              ELSE <<"Install Puppeteer with: npm install puppeteer">>)]

\* lines 494-498
AutomationUnavailable(e) ==
    [kind |-> "AutomationUnavailable",
     msg |-> <<"Failed to fetch URL", ": ">> \o e.msg \o
             (IF isServerless
              THEN <<"not available in serverless environments">>
              ELSE <<"Install Puppeteer with: npm install puppeteer">>)]

\* line 488
LikelyAntiBot(e) ==
    [kind |-> "LikelyAntiBot",
     msg |-> <<"Site returned a ", "500", " error, likely due to anti-bot protection",
               "Original error: ">> \o e.msg]

BrowserAutomationFailed_NoCause(pm, e) ==
    [kind |-> "BrowserAutomationFailed",
     msg |-> <<"Failed to fetch URL", " with browser automation: ">>
             \o <<". Original error: ">> \o e.msg]

\* line 490
BrowserAutomationFailed(pm, e) ==
    [kind |-> "BrowserAutomationFailed",
     msg |-> <<"Failed to fetch URL", " with browser automation: ">> \o pm
             \o <<". Original error: ">> \o e.msg]

\* lines 485-491: the catch around fetchWithPuppeteer
EscalationError(pm, e) ==
    IF isAntiBot(pm) THEN LikelyAntiBot(e) ELSE BrowserAutomationFailed(pm, e)

Escalates_Only500(e) == e.statusCode = "500" /\ puppeteer # None

Escalates_Always(e) == puppeteer # None

\* line 481
Escalates(e) == isBlocked(e) /\ puppeteer # None

-----------------------------------------------------------------------------
(* State of one call *)

\* page.goto has not been called
NoNav == [waitUntil |-> "", timeout |-> 0]

\* no response has been sent
NoRes == [status |-> 0, error |-> <<>>, article |-> <<>>]

InitCall(u) ==
    [url |-> u, pc |-> "start", html |-> None, err |-> NoError,
     plainErr |-> NoPlainErr, plainAttempts |-> 0, puppeteerCalls |-> 0,
     rpc |-> "idle", browser |-> 0, launches |-> 0, closeCalls |-> 0,
     status |-> 0, isCloudflareChallenge |-> FALSE,
     challengeCompleted |-> FALSE, elapsed |-> 0, timedOut |-> FALSE,
     finalBody |-> None, page |-> NoPage, rerr |-> <<>>, captured |-> None,
     returned |-> "no", doc |-> <<>>, embeds |-> <<>>, foundTweetIds |-> {},
     article |-> <<>>, result |-> <<>>, swallowed |-> FALSE,
     pollAt |-> 0, sel |-> 0, closeClicks |-> 0, raised |-> "",
     nav |-> NoNav, hasUrl |-> TRUE, invoked |-> FALSE, res |-> NoRes,
     fetched |-> FALSE]

Init ==
    /\ env \in Envs
    /\ installed \in Packages
    /\ calls = {1}
    /\ \E u \in Urls : st = [c \in {1} |-> InitCall(u)]
    /\ sessions = <<>>

Upd(c, r) == st' = [st EXCEPT ![c] = r]

Same == UNCHANGED <<env, installed, calls>>

\* the try block throws m: the outer catch wraps it, finally comes next
RenderFail(s, m) == [s EXCEPT !.rerr = Wrapped(m), !.rpc = "finally"]

-----------------------------------------------------------------------------
(* parseArticle, lines 457-503 *)

Validate_FetchFirst(c) ==
    LET s == st[c] IN
    /\ s.pc = "start"
    /\ Upd(c, [s EXCEPT !.pc = "plain", !.plainAttempts = s.plainAttempts + 1])
    /\ Same /\ UNCHANGED sessions

\* lines 459-471: new URL(url), then the plain attempt is issued
Validate(c) ==
    LET s == st[c] IN
    /\ s.pc = "start"
    /\ IF UrlParses(s.url)
       THEN Upd(c, [s EXCEPT !.pc = "plain",
                             !.plainAttempts = s.plainAttempts + 1])
       ELSE Upd(c, [s EXCEPT !.pc = "failed", !.err = InvalidUrl])
    /\ Same /\ UNCHANGED sessions

\* line 471 resolves: response.ok
PlainSucceeds(c) ==
    LET s == st[c] IN
    /\ s.pc = "plain"
    /\ \E h \in PlainHtmls : Upd(c, [s EXCEPT !.pc = "parse", !.html = h])
    /\ Same /\ UNCHANGED sessions

\* lines 472-502: the plain attempt threw e; fetchWithPuppeteer, when
\* called, runs up to its first await, the launch
PlainFails(c) ==
    LET s == st[c] IN
    /\ s.pc = "plain"
    /\ \E e \in PlainFailures :
         Upd(c, IF Escalates(e)
                THEN [s EXCEPT !.plainErr = e, !.pc = "render",
                               !.puppeteerCalls = s.puppeteerCalls + 1,
                               !.rpc = "launch"]
                ELSE IF isBlocked(e)
                THEN [s EXCEPT !.plainErr = e, !.pc = "failed",
                               !.err = AutomationUnavailable(e)]
                ELSE [s EXCEPT !.plainErr = e, !.pc = "failed",
                               !.err = FetchFailed(e)])
    /\ Same /\ UNCHANGED sessions

RenderSettles_Retry(c) ==
    LET s == st[c] IN
    /\ s.pc = "render" /\ s.rpc = "settle"
    /\ IF s.rerr = <<>>
       THEN Upd(c, [s EXCEPT !.rpc = "done", !.returned = "html",
                             !.html = s.captured, !.pc = "parse"])
       ELSE Upd(c, [s EXCEPT !.rpc = "launch", !.rerr = <<>>, !.browser = 0,
                             !.puppeteerCalls = s.puppeteerCalls + 1])
    /\ Same /\ UNCHANGED sessions

\* lines 484-491: fetchWithPuppeteer has settled
RenderSettles(c) ==
    LET s == st[c] IN
    /\ s.pc = "render" /\ s.rpc = "settle"
    /\ IF s.rerr = <<>>
       THEN Upd(c, [s EXCEPT !.rpc = "done", !.returned = "html",
                             !.html = s.captured, !.pc = "parse"])
       ELSE Upd(c, [s EXCEPT !.rpc = "done", !.returned = "error",
                             !.err = EscalationError(s.rerr, s.plainErr),
                             !.pc = "failed"])
    /\ Same /\ UNCHANGED sessions

-----------------------------------------------------------------------------
(* fetchWithPuppeteer, lines 57-398 *)

InRender(s, at) == s.pc = "render" /\ s.rpc = at

Launch_Pooled(c) ==
    LET s == st[c]
        open == { i \in DOMAIN sessions : sessions[i].state = "open" }
    IN
    /\ InRender(s, "launch")
    /\ IF open = {}
       THEN /\ sessions' = Append(sessions, [owner |-> c, state |-> "open"])
            /\ Upd(c, [s EXCEPT !.browser = Len(sessions) + 1,
                                !.launches = s.launches + 1, !.rpc = "setup"])
       ELSE /\ UNCHANGED sessions
            /\ Upd(c, [s EXCEPT !.browser = CHOOSE i \in open : TRUE,
                                !.launches = s.launches + 1, !.rpc = "setup"])
    /\ Same

Launch_Speculative(c) ==
    LET s == st[c] IN
    /\ \/ InRender(s, "launch")
       \/ s.pc = "plain" /\ s.launches = 0
    /\ sessions' = Append(sessions, [owner |-> c, state |-> "open"])
    /\ Upd(c, [s EXCEPT !.browser = Len(sessions) + 1,
                        !.launches = s.launches + 1,
                        !.rpc = IF s.pc = "plain" THEN s.rpc ELSE "setup"])
    /\ Same

\* lines 59-82: puppeteer.launch() resolves with a new session
Launch(c) ==
    LET s == st[c] IN
    /\ InRender(s, "launch")
    /\ sessions' = Append(sessions, [owner |-> c, state |-> "open"])
    /\ Upd(c, [s EXCEPT !.browser = Len(sessions) + 1,
                        !.launches = s.launches + 1, !.rpc = "setup"])
    /\ Same

\* puppeteer.launch() rejects: browser stays undefined
LaunchThrows(c) ==
    LET s == st[c] IN
    /\ InRender(s, "launch")
    /\ \E m \in DriverMsgs : Upd(c, RenderFail(s, m))
    /\ Same /\ UNCHANGED sessions

\* lines 84-139: newPage, the four evaluateOnNewDocument, viewport, user
\* agent and headers
Setup(c) ==
    LET s == st[c] IN
    /\ InRender(s, "setup")
    /\ \/ Upd(c, [s EXCEPT !.rpc = "goto"])
       \/ \E m \in DriverMsgs : Upd(c, RenderFail(s, m))
    /\ Same /\ UNCHANGED sessions

\* lines 142-155: page.goto resolves with a response, with none, or rejects
Navigate(c) ==
    LET s == [st[c] EXCEPT !.nav = [waitUntil |-> waitUntil,
                                    timeout |-> timeout]]
    IN
    /\ InRender(s, "goto")
    /\ \/ \E n \in NavStatuses : Upd(c, [s EXCEPT !.status = n, !.rpc = "detect"])
       \/ Upd(c, RenderFail(s, <<"No response received from page">>))
       \/ \E m \in DriverMsgs : Upd(c, RenderFail(s, m))
    /\ Same /\ UNCHANGED sessions

\* lines 158-169
DetectChallenge(c) ==
    LET s == st[c] IN
    /\ InRender(s, "detect")
    /\ \/ \E pg \in Pages :
            Upd(c, [s EXCEPT !.page = pg,
                             !.isCloudflareChallenge = detectsChallenge(pg),
                             !.rpc = IF detectsChallenge(pg) THEN "interact"
                                     ELSE "httpcheck"])
       \/ \E m \in DriverMsgs : Upd(c, RenderFail(s, m))
    /\ Same /\ UNCHANGED sessions

Interact_SwallowAll(c) ==
    LET s == st[c] IN
    /\ InRender(s, "interact")
    /\ \E r \in {"", "verify", "interact"} :
          Upd(c, [s EXCEPT !.challengeCompleted = FALSE, !.elapsed = 0,
                           !.pollAt = 0, !.rpc = "loop", !.raised = r])
    /\ Same /\ UNCHANGED sessions

\* lines 173-205: the simulated interaction, once; an exception of the
\* verify-button click is swallowed (191-199), any other one reaches the
\* catch of line 267
Interact(c) ==
    LET s == st[c] IN
    /\ InRender(s, "interact")
    /\ \/ \E r \in {"", "verify"} :
            Upd(c, [s EXCEPT !.challengeCompleted = FALSE, !.elapsed = 0,
                             !.pollAt = 0, !.rpc = "loop", !.raised = r])
       \/ Upd(c, [s EXCEPT !.rpc = "snippet", !.raised = "interact"])
    /\ Same /\ UNCHANGED sessions

LoopPoll_FreshStart(c) ==
    LET s == st[c] IN
    /\ InRender(s, "loop")
    /\ ~s.challengeCompleted /\ s.elapsed < maxWaitTime
    /\ \/ \E pg \in Pages, ov \in 0..MaxOverhead :
            IF loopExit(pg)
            THEN Upd(c, [s EXCEPT !.page = pg, !.elapsed = PollDelay + ov,
                                  !.pollAt = PollDelay,
                                  !.challengeCompleted = TRUE,
                                  !.rpc = "httpcheck"])
            ELSE Upd(c, [s EXCEPT !.page = pg, !.pollAt = PollDelay,
                                  !.elapsed = 0])
       \/ Upd(c, [s EXCEPT !.rpc = "snippet", !.raised = "poll"])
    /\ Same /\ UNCHANGED sessions

\* lines 207-247: one iteration of the challenge loop
LoopPoll(c) ==
    LET s == st[c] IN
    /\ InRender(s, "loop")
    /\ ~s.challengeCompleted /\ s.elapsed < maxWaitTime
    /\ \/ \E pg \in Pages, ov \in 0..MaxOverhead :
            LET t == s.elapsed + PollDelay + ov IN
            IF loopExit(pg)
            THEN Upd(c, [s EXCEPT !.page = pg, !.elapsed = t,
                                  !.pollAt = s.elapsed + PollDelay,
                                  !.challengeCompleted = TRUE,
                                  !.rpc = "httpcheck"])
            ELSE Upd(c, [s EXCEPT !.page = pg,
                                  !.pollAt = s.elapsed + PollDelay,
                                  !.elapsed = t + ActivityDelay])
       \/ Upd(c, [s EXCEPT !.rpc = "snippet", !.raised = "poll"])
    /\ Same /\ UNCHANGED sessions

\* line 207 with the budget used up, line 249
LoopExhausted(c) ==
    LET s == st[c] IN
    /\ InRender(s, "loop")
    /\ ~s.challengeCompleted /\ ~(s.elapsed < maxWaitTime)
    /\ Upd(c, [s EXCEPT !.timedOut = TRUE, !.rpc = "final"])
    /\ Same /\ UNCHANGED sessions

\* lines 249-264: the final check after a loop that did not complete
FinalCheck(c) ==
    LET s == st[c] IN
    /\ InRender(s, "final")
    /\ \/ \E pg \in Pages :
            Upd(c, [s EXCEPT !.page = pg, !.finalBody = pg.body,
                             !.rpc = IF finalCheck(pg) THEN "snippet"
                                     ELSE "httpcheck",
                             !.raised = IF finalCheck(pg) THEN "final"
                                        ELSE s.raised])
       \/ Upd(c, [s EXCEPT !.rpc = "snippet", !.raised = "final"])
    /\ Same /\ UNCHANGED sessions

\* lines 267-273: the catch of the challenge handling reads a snippet and
\* throws the did-not-complete-in-time error
ChallengeCatch(c) ==
    LET s == st[c] IN
    /\ InRender(s, "snippet")
    /\ \/ \E pg \in Pages :
            Upd(c, RenderFail([s EXCEPT !.page = pg], ChallengeTimeoutMsg(pg)))
       \/ \E m \in DriverMsgs : Upd(c, RenderFail(s, m))
    /\ Same /\ UNCHANGED sessions

HttpCheck_IgnoreChallenge(c) ==
    LET s == st[c] IN
    /\ InRender(s, "httpcheck")
    /\ IF s.status >= 400
       THEN \/ \E pg \in Pages :
                 Upd(c, RenderFail([s EXCEPT !.page = pg],
                                   HttpErrorMsg(s.status, pg)))
            \/ \E m \in DriverMsgs : Upd(c, RenderFail(s, m))
       ELSE Upd(c, [s EXCEPT !.rpc = "modal"])
    /\ Same /\ UNCHANGED sessions

\* lines 276-287
HttpCheck(c) ==
    LET s == st[c] IN
    /\ InRender(s, "httpcheck")
    /\ IF s.status >= 400 /\ ~s.isCloudflareChallenge
       THEN \/ \E pg \in Pages :
                 Upd(c, RenderFail([s EXCEPT !.page = pg],
                                   HttpErrorMsg(s.status, pg)))
            \/ \E m \in DriverMsgs : Upd(c, RenderFail(s, m))
       ELSE Upd(c, [s EXCEPT !.rpc = "modal"])
    /\ Same /\ UNCHANGED sessions

\* lines 295-305: the close-button selectors the scan tries
NumSelectors == 9

DismissModal_NoBreak(c) ==
    LET s == st[c] IN
    /\ InRender(s, "modal")
    /\ IF s.sel < NumSelectors
       THEN \/ Upd(c, [s EXCEPT !.sel = s.sel + 1])
            \/ Upd(c, [s EXCEPT !.sel = s.sel + 1, !.swallowed = TRUE])
            \/ Upd(c, [s EXCEPT !.sel = s.sel + 1,
                                !.closeClicks = s.closeClicks + 1])
       ELSE Upd(c, [s EXCEPT !.sel = 0,
                             !.rpc = IF s.closeClicks > 0 THEN "bodyclick"
                                     ELSE "escape"])
    /\ Same /\ UNCHANGED sessions

\* lines 287-329: the delays, then one iteration of the loop over the
\* close-button selectors: no visible button for the selector; page.$,
\* evaluate or click throws and the catch of line 326 goes on to the next
\* selector; or the button is clicked and the loop ends (322-323). With
\* every selector tried the loop ends with modalClosed false.
DismissModal(c) ==
    LET s == st[c] IN
    /\ InRender(s, "modal")
    /\ IF s.sel < NumSelectors
       THEN \/ Upd(c, [s EXCEPT !.sel = s.sel + 1])
            \/ Upd(c, [s EXCEPT !.sel = s.sel + 1, !.swallowed = TRUE])
            \/ Upd(c, [s EXCEPT !.sel = 0,
                                !.closeClicks = s.closeClicks + 1,
                                !.rpc = "bodyclick"])
       ELSE Upd(c, [s EXCEPT !.sel = 0, !.rpc = "escape"])
    /\ Same /\ UNCHANGED sessions

PressEscape_Fatal(c) ==
    LET s == st[c] IN
    /\ InRender(s, "escape")
    /\ \/ Upd(c, [s EXCEPT !.rpc = "bodyclick"])
       \/ \E m \in DriverMsgs : Upd(c, RenderFail(s, m))
    /\ Same /\ UNCHANGED sessions

\* lines 332-335: keyboard.press('Escape'); an exception skips the rest of
\* the phase and is logged by the catch of line 356
PressEscape(c) ==
    LET s == st[c] IN
    /\ InRender(s, "escape")
    /\ \/ Upd(c, [s EXCEPT !.rpc = "bodyclick"])
       \/ Upd(c, [s EXCEPT !.swallowed = TRUE, !.rpc = "waitsel"])
    /\ Same /\ UNCHANGED sessions

\* lines 338-349: the click on body; its exception is ignored
ClickBody(c) ==
    LET s == st[c] IN
    /\ InRender(s, "bodyclick")
    /\ \E threw \in BOOLEAN :
         Upd(c, [s EXCEPT !.swallowed = s.swallowed \/ threw,
                          !.rpc = "scroll"])
    /\ Same /\ UNCHANGED sessions

\* lines 352-358: the scroll; its exception is logged by the catch of
\* line 356
ScrollDown(c) ==
    LET s == st[c] IN
    /\ InRender(s, "scroll")
    /\ \E threw \in BOOLEAN :
         Upd(c, [s EXCEPT !.swallowed = s.swallowed \/ threw,
                          !.rpc = "waitsel"])
    /\ Same /\ UNCHANGED sessions

\* lines 361-374: the wait for an article selector; a rejection (the
\* 10 s timeout, a driver error) is logged by .catch
WaitForArticle(c) ==
    LET s == st[c] IN
    /\ InRender(s, "waitsel")
    /\ \E threw \in BOOLEAN :
         Upd(c, [s EXCEPT !.swallowed = s.swallowed \/ threw,
                          !.rpc = "capture"])
    /\ Same /\ UNCHANGED sessions

\* lines 377-378: page.content()
Capture(c) ==
    LET s == st[c] IN
    /\ InRender(s, "capture")
    /\ \/ \E h \in RenderedHtmls :
            Upd(c, [s EXCEPT !.captured = h, !.rpc = "finally"])
       \/ \E m \in DriverMsgs : Upd(c, RenderFail(s, m))
    /\ Same /\ UNCHANGED sessions

CloseBrowser_OnSuccessOnly(c) ==
    LET s == st[c] IN
    /\ InRender(s, "finally")
    /\ s.browser # 0
    /\ IF s.rerr = <<>>
       THEN /\ \E o \in {"closed", "close-failed"} :
                 sessions' = [sessions EXCEPT ![s.browser].state = o]
            /\ Upd(c, [s EXCEPT !.closeCalls = s.closeCalls + 1,
                                !.rpc = "settle"])
       ELSE /\ UNCHANGED sessions
            /\ Upd(c, [s EXCEPT !.rpc = "settle"])
    /\ Same

\* lines 390-398: finally; browser.close() resolves or rejects, and the
\* rejection is logged
CloseBrowser(c) ==
    LET s == st[c] IN
    /\ InRender(s, "finally")
    /\ s.browser # 0
    /\ \E o \in {"closed", "close-failed"} :
         sessions' = [sessions EXCEPT ![s.browser].state = o]
    /\ Upd(c, [s EXCEPT !.closeCalls = s.closeCalls + 1, !.rpc = "settle"])
    /\ Same

\* line 391 with browser undefined
NoBrowser(c) ==
    LET s == st[c] IN
    /\ InRender(s, "finally")
    /\ s.browser = 0
    /\ Upd(c, [s EXCEPT !.rpc = "settle"])
    /\ Same /\ UNCHANGED sessions

-----------------------------------------------------------------------------
(* The parsed document, lines 505-510.                                     *)
(* An element is a record; a document is the sequence of the children of   *)
(* body. An attribute that holds a URL is the record [kind, id]: kind      *)
(* names the host and path pattern, id the identifier in it. The           *)
(* substring tests of the code (selectors with *=, includes, match) are    *)
(* tests on kind. outerHTML of an element is the element record itself,    *)
(* and an HTML fragment is a sequence of element records.                  *)

NoUrl == [kind |-> "none", id |-> ""]

Url(k, i) == [kind |-> k, id |-> i]

Node(tag, cls, ref, dataName, data, attrs, text, kids) ==
    [tag |-> tag, cls |-> cls, ref |-> ref, dataName |-> dataName,
     data |-> data, attrs |-> attrs, style |-> "", text |-> text,
     kids |-> kids]

\* ref: src of iframe and script, href of a and link; style: the style
\* attribute; text: the words of the element's own text

Leaf(tag, cls, ref, attrs, text) ==
    Node(tag, cls, ref, "", NoUrl, attrs, text, <<>>)

BodyNode(doc) == Node("body", {}, NoUrl, "", NoUrl, "", <<>>, doc)

VideoIds == {"abc12345678", "xyz12345678"}

TweetIds == {"1234567890"}

\* the strings a URL of each kind contains
UrlHas(u, part) ==
    CASE part = "youtube.com" -> u.kind \in {"yt-embed", "yt-watch"}
      [] part = "youtube" -> u.kind \in {"yt-embed", "yt-watch", "yt-nocookie"}
      [] part = "youtu.be" -> u.kind = "yt-short"
      [] part = "youtu.be/" -> u.kind = "yt-short"
      [] part = "youtube-nocookie.com" -> u.kind = "yt-nocookie"
      [] part = "youtube.com/watch" -> u.kind = "yt-watch"
      [] part = "youtube.com/watch?v=" -> u.kind = "yt-watch"
      [] part = "youtube.com/embed" -> u.kind = "yt-embed"
      [] part = "youtube.com/embed/" -> u.kind = "yt-embed"
      [] part = "twitter.com" ->
             u.kind \in {"tw-status", "tw-profile", "tw-widgets"}
      [] part = "twitter.com/" ->
             u.kind \in {"tw-status", "tw-profile", "tw-widgets"}
      [] part = "twitter" ->
             u.kind \in {"tw-status", "tw-profile", "tw-widgets"}
      [] part = "x.com" -> u.kind = "x-status"
      [] part = "x.com/" -> u.kind = "x-status"
      [] part = "platform.twitter.com" -> u.kind = "tw-widgets"
      [] part = "platform.x.com" -> FALSE

\* a JavaScript value is truthy: neither null nor the empty string
Truthy(x) == x # None /\ x # ""

\* the class attribute contains the string: [class*="..."]
ClassHas(n, part) ==
    \E k \in n.cls :
        \/ k = part
        \/ k = "twitter-tweet-rendered" /\ part = "twitter-tweet"
        \/ k = "youtube-player" /\ part = "youtube"

\* paths of the elements below `kids`, in document order
RECURSIVE Flat(_, _)
Flat(kids, prefix) ==
    LET f[i \in 0..Len(kids)] ==
            IF i = 0 THEN <<>>
            ELSE f[i - 1] \o <<prefix \o <<i>>>>
                 \o Flat(kids[i].kids, prefix \o <<i>>)
    IN f[Len(kids)]

AllPaths(doc) == Flat(doc, <<>>)

RECURSIVE NodeIn(_, _)
NodeIn(kids, p) ==
    IF Len(p) = 1 THEN kids[p[1]] ELSE NodeIn(kids[p[1]].kids, Tail(p))

\* the element at a path; the empty path is body
NodeAt(doc, p) == IF p = <<>> THEN BodyNode(doc) ELSE NodeIn(doc, p)

\* parentElement; the parent of a child of body is body
Parent(p) == SubSeq(p, 1, Len(p) - 1)

IsPrefix(p, q) == Len(p) < Len(q) /\ SubSeq(q, 1, Len(p)) = p

\* querySelectorAll below the element at `root`, in document order
Select(doc, root, Test(_)) ==
    SelectSeq(AllPaths(doc),
              LAMBDA p : IsPrefix(root, p) /\ Test(NodeAt(doc, p)))

\* the null element reference
NullPath == <<0>>

\* querySelector: the first match or null
SelectFirst(doc, root, Test(_)) ==
    LET m == Select(doc, root, Test) IN
    IF m = <<>> THEN NullPath ELSE m[1]

\* the element records of a fragment, descendants included
RECURSIVE NodesOf(_)
NodesOf(frag) ==
    UNION { {frag[i]} \cup NodesOf(frag[i].kids) : i \in DOMAIN frag }

-----------------------------------------------------------------------------
(* Embed detection: video, lines 512-668 *)

NoPath == <<>>

\* a post identifier: the digits of a status URL, or a prefix ("hash_",
\* "iframe_") and what follows it
TweetId(pre, body) == [pre |-> pre, body |-> body]

NoTweetId == TweetId("none", <<>>)

Embed(type, h, element, iframe, videoId, tweetId, isGenerated) ==
    [type |-> type, html |-> h, element |-> element, iframe |-> iframe,
     videoId |-> videoId, tweetId |-> tweetId, isGenerated |-> isGenerated]

\* some(e => e.html === html)
HasHtml(embeds, h) == \E i \in DOMAIN embeds : embeds[i].html = h

\* some(e => e.videoId === videoId)
HasVideoId(embeds, v) == \E i \in DOMAIN embeds : embeds[i].videoId = v

\* lines 560-561: the synthesized frame
embedHtml(videoId) ==
    <<Leaf("iframe", {}, Url("yt-embed", videoId),
           "frameborder allow allowfullscreen", <<>>)>>

\* lines 584-588: the identifier of a watch or short link
LinkVideoId(u) ==
    IF UrlHas(u, "youtube.com/watch?v=") THEN u.id
    ELSE IF UrlHas(u, "youtu.be/") THEN u.id
    ELSE None

\* lines 552-557: the identifier of a data attribute, which holds a bare
\* identifier or a URL
DataVideoId(u) ==
    IF UrlHas(u, "youtube.com/watch?v=") THEN u.id
    ELSE IF UrlHas(u, "youtu.be/") THEN u.id
    ELSE IF u.kind = "raw" THEN u.id
    ELSE "unparsed-url"

\* line 517
IsYoutubeIframe(n) ==
    /\ n.tag = "iframe"
    /\ \/ UrlHas(n.ref, "youtube.com") \/ UrlHas(n.ref, "youtu.be")
       \/ UrlHas(n.ref, "youtube-nocookie.com")

\* lines 518-536: the body of the forEach of strategy 1
Youtube1Step(doc, p, embeds) ==
    LET parent == NodeAt(doc, Parent(p))
        promote ==
            \/ "youtube" \in parent.cls \/ "video" \in parent.cls
            \/ "embed" \in parent.cls
            \/ parent.dataName = "data-youtube-id" /\ parent.data # NoUrl
        embedElement == IF promote THEN Parent(p) ELSE p
        h == <<NodeAt(doc, embedElement)>>
    IN
    IF HasHtml(embeds, h) THEN embeds
    ELSE Append(embeds,
                Embed("youtube", h, embedElement, p, None, NoTweetId, FALSE))

Youtube1(doc, embeds) ==
    LET m == Select(doc, <<>>, IsYoutubeIframe)
        f[i \in 0..Len(m)] ==
            IF i = 0 THEN embeds ELSE Youtube1Step(doc, m[i], f[i - 1])
    IN f[Len(m)]

\* line 539
IsYoutubeDiv(n) ==
    /\ n.tag = "div"
    /\ \/ n.dataName \in {"data-youtube-id", "data-youtube-url"}
       \/ "youtube" \in n.cls \/ ClassHas(n, "youtube")
       \/ ClassHas(n, "video-embed")

\* line 542
IsYoutubeIframe2(n) ==
    /\ n.tag = "iframe"
    /\ UrlHas(n.ref, "youtube") \/ UrlHas(n.ref, "youtu.be")

\* lines 540-574
Youtube2Step(doc, p, embeds) ==
    LET div == NodeAt(doc, p)
        iframe == SelectFirst(doc, p, IsYoutubeIframe2)
        videoId == DataVideoId(div.data)
    IN
    IF iframe # NullPath THEN embeds
    ELSE IF div.data = NoUrl THEN embeds
    ELSE IF ~Truthy(videoId) THEN embeds
    ELSE IF HasVideoId(embeds, videoId) THEN embeds
    ELSE Append(embeds, Embed("youtube", embedHtml(videoId), p, NoPath,
                              videoId, NoTweetId, TRUE))

Youtube2(doc, embeds) ==
    LET m == Select(doc, <<>>, IsYoutubeDiv)
        f[i \in 0..Len(m)] ==
            IF i = 0 THEN embeds ELSE Youtube2Step(doc, m[i], f[i - 1])
    IN f[Len(m)]

\* line 577
IsYoutubeLink(n) ==
    /\ n.tag = "a"
    /\ UrlHas(n.ref, "youtube.com/watch") \/ UrlHas(n.ref, "youtu.be/")

Youtube3Step_Override(doc, p, embeds) ==
    LET link == NodeAt(doc, p)
        videoId == LinkVideoId(link.ref)
        made == Embed("youtube", embedHtml(videoId), p, NoPath, videoId,
                      NoTweetId, TRUE)
    IN
    IF ~Truthy(videoId) THEN embeds
    ELSE IF HasVideoId(embeds, videoId)
    THEN [i \in DOMAIN embeds |->
             IF embeds[i].videoId = videoId THEN made ELSE embeds[i]]
    ELSE Append(embeds, made)

\* lines 578-618
Youtube3Step(doc, p, embeds) ==
    LET link == NodeAt(doc, p)
        videoId == LinkVideoId(link.ref)
        parent == NodeAt(doc, Parent(p))
        h == <<parent>>
    IN
    IF ~(Truthy(videoId) /\ ~HasVideoId(embeds, videoId)) THEN embeds
    ELSE IF "embed" \in parent.cls \/ "video" \in parent.cls
    THEN IF HasHtml(embeds, h) THEN embeds
         ELSE Append(embeds, Embed("youtube", h, Parent(p), NoPath,
                                   videoId, NoTweetId, FALSE))
    ELSE Append(embeds, Embed("youtube", embedHtml(videoId), p, NoPath,
                              videoId, NoTweetId, TRUE))

Youtube3(doc, embeds) ==
    LET m == Select(doc, <<>>, IsYoutubeLink)
        f[i \in 0..Len(m)] ==
            IF i = 0 THEN embeds ELSE Youtube3Step(doc, m[i], f[i - 1])
    IN f[Len(m)]

\* line 621
IsOembedLink(n) ==
    \/ n.tag = "link" /\ n.attrs = "type=application/json+oembed"
         /\ UrlHas(n.ref, "youtube")
    \/ n.tag = "a" /\ UrlHas(n.ref, "youtube.com/embed")

\* lines 622-639
Youtube4Step(doc, p, embeds) ==
    LET link == NodeAt(doc, p)
        videoId == link.ref.id
    IN
    IF ~UrlHas(link.ref, "youtube.com/embed/") THEN embeds
    ELSE IF ~(Truthy(videoId) /\ ~HasVideoId(embeds, videoId)) THEN embeds
    ELSE Append(embeds, Embed("youtube", embedHtml(videoId), p, NoPath,
                              videoId, NoTweetId, TRUE))

Youtube4(doc, embeds) ==
    LET m == Select(doc, <<>>, IsOembedLink)
        f[i \in 0..Len(m)] ==
            IF i = 0 THEN embeds ELSE Youtube4Step(doc, m[i], f[i - 1])
    IN f[Len(m)]

\* the identifier the pattern of line 643 captures in a word of text
SweepWord(w) ==
    CASE w = "youtu.be/abc12345678" -> "abc12345678"
      [] w = "youtube.com/watch?v=xyz12345678" -> "xyz12345678"
      [] OTHER -> None

MatchesIn_AnyUrl(n) ==
    (IF n.data.id \in VideoIds THEN <<n.data.id>> ELSE <<>>)
    \o (IF n.ref.kind \in {"yt-watch", "yt-short", "yt-embed"}
           /\ n.ref.id \in VideoIds
        THEN <<n.ref.id>> ELSE <<>>)
    \o SelectSeq([i \in DOMAIN n.text |-> SweepWord(n.text[i])],
                 LAMBDA v : v # None)

\* line 643: the matches of the pattern in the serialized element, in
\* order: the attributes, then the text
MatchesIn(n) ==
    (IF n.data.kind \in {"yt-watch", "yt-short"} /\ n.data.id \in VideoIds
     THEN <<n.data.id>> ELSE <<>>)
    \o (IF n.ref.kind \in {"yt-watch", "yt-short"} /\ n.ref.id \in VideoIds
        THEN <<n.ref.id>> ELSE <<>>)
    \o SelectSeq([i \in DOMAIN n.text |-> SweepWord(n.text[i])],
                 LAMBDA v : v # None)

\* lines 647-652: foundVideoIds, in insertion order
FoundVideoIds(doc, embeds) ==
    LET ps == AllPaths(doc)
        add(found, ids) ==
            LET g[j \in 0..Len(ids)] ==
                    IF j = 0 THEN found
                    ELSE IF HasVideoId(embeds, ids[j])
                            \/ \E k \in DOMAIN g[j - 1] : g[j - 1][k] = ids[j]
                         THEN g[j - 1]
                         ELSE Append(g[j - 1], ids[j])
            IN g[Len(ids)]
        f[i \in 0..Len(ps)] ==
            IF i = 0 THEN <<>>
            ELSE add(f[i - 1], MatchesIn(NodeAt(doc, ps[i])))
    IN f[Len(ps)]

\* lines 655-668
Youtube5Step(videoId, embeds) ==
    IF HasVideoId(embeds, videoId) THEN embeds
    ELSE Append(embeds, Embed("youtube", embedHtml(videoId), NullPath, NoPath,
                              videoId, NoTweetId, TRUE))

Youtube5(doc, embeds) ==
    LET m == FoundVideoIds(doc, embeds)
        f[i \in 0..Len(m)] ==
            IF i = 0 THEN embeds ELSE Youtube5Step(m[i], f[i - 1])
    IN f[Len(m)]

-----------------------------------------------------------------------------
(* Embed detection: social posts, lines 670-828 *)

\* the words of the text a hash keeps: substring(0, 100), whitespace
\* removed, substring(0, 50)
TextCut == 2

\* textContent: the words of the element and of its descendants, in order
RECURSIVE TextContent(_)
TextContent(n) ==
    LET f[i \in 0..Len(n.kids)] ==
            IF i = 0 THEN n.text ELSE f[i - 1] \o TextContent(n.kids[i])
    IN f[Len(n.kids)]

HashId_WholeText(n) == TweetId("hash_", TextContent(n))

\* lines 692-693
HashId(n) ==
    LET t == TextContent(n) IN
    TweetId("hash_", SubSeq(t, 1, IF Len(t) < TextCut THEN Len(t) ELSE TextCut))

\* lines 684, 760: href.match(/\/(status|statuses)\/(\d+)/)
StatusMatch(u) == u.kind \in {"tw-status", "x-status"} /\ u.id \in TweetIds

\* line 678
IsTweetLink(n) ==
    n.tag = "a" /\ (UrlHas(n.ref, "twitter.com/") \/ UrlHas(n.ref, "x.com/"))

\* lines 678-694, 800-814: the identifier of a quote element
QuoteTweetId(doc, p) ==
    LET tweetLink == SelectFirst(doc, p, IsTweetLink) IN
    IF tweetLink # NullPath /\ StatusMatch(NodeAt(doc, tweetLink).ref)
    THEN TweetId("", <<NodeAt(doc, tweetLink).ref.id>>)
    ELSE HashId(NodeAt(doc, p))

\* lines 708-709, 726, 783
IsWidgetScript(n) ==
    /\ n.tag = "script"
    /\ UrlHas(n.ref, "platform.twitter.com") \/ UrlHas(n.ref, "platform.x.com")

\* the sibling of p at index i
Sibling(p, i) == Parent(p) \o <<i>>

SiblingCount(doc, p) == Len(NodeAt(doc, Parent(p)).kids)

Last(p) == p[Len(p)]

\* the nearest sibling before p that passes the test, or null
PrevSibling(doc, p, Test(_)) ==
    LET c == { i \in 1..(Last(p) - 1) : Test(NodeAt(doc, Sibling(p, i))) } IN
    IF c = {} THEN NullPath
    ELSE Sibling(p, CHOOSE i \in c : \A j \in c : j <= i)

\* the nearest sibling after p that passes the test, or null
NextSibling(doc, p, Test(_)) ==
    LET c == { i \in (Last(p) + 1)..SiblingCount(doc, p) :
                 Test(NodeAt(doc, Sibling(p, i))) } IN
    IF c = {} THEN NullPath
    ELSE Sibling(p, CHOOSE i \in c : \A j \in c : i <= j)

\* lines 701-730: the script element associated with a quote
ScriptFor(doc, p) ==
    LET before == PrevSibling(doc, p, IsWidgetScript)
        after == NextSibling(doc, p, IsWidgetScript)
    IN
    IF before # NullPath THEN before
    ELSE IF after # NullPath THEN after
    ELSE SelectFirst(doc, Parent(p), IsWidgetScript)

\* line 674
IsTweetQuote(n) ==
    n.tag = "blockquote" /\ ("twitter-tweet" \in n.cls \/ ClassHas(n, "twitter-tweet"))

Twitter1Step_NoAdd(doc, p, acc) ==
    LET tweetId == QuoteTweetId(doc, p)
        scriptTag == ScriptFor(doc, p)
        parent == NodeAt(doc, Parent(p))
        promote ==
            /\ parent.tag = "div"
            /\ "twitter-tweet" \in parent.cls \/ "twitter-container" \in parent.cls
        embedElement == IF promote THEN Parent(p) ELSE p
        h0 == <<NodeAt(doc, embedElement)>>
        h == IF scriptTag # NullPath /\ NodeAt(doc, scriptTag) \notin NodesOf(h0)
             THEN Append(h0, NodeAt(doc, scriptTag)) ELSE h0
    IN
    IF tweetId \in acc.found THEN acc
    ELSE [embeds |-> Append(acc.embeds,
                            Embed("twitter", h, embedElement, NoPath, None,
                                  tweetId, FALSE)),
          found |-> acc.found]

\* lines 676-753; the state is the pair of embeds and foundTweetIds
Twitter1Step(doc, p, acc) ==
    LET tweetId == QuoteTweetId(doc, p)
        scriptTag == ScriptFor(doc, p)
        parent == NodeAt(doc, Parent(p))
        promote ==
            /\ parent.tag = "div"
            /\ "twitter-tweet" \in parent.cls \/ "twitter-container" \in parent.cls
        embedElement == IF promote THEN Parent(p) ELSE p
        h0 == <<NodeAt(doc, embedElement)>>
        h == IF scriptTag # NullPath /\ NodeAt(doc, scriptTag) \notin NodesOf(h0)
             THEN Append(h0, NodeAt(doc, scriptTag)) ELSE h0
    IN
    IF tweetId \in acc.found THEN acc
    ELSE [embeds |-> Append(acc.embeds,
                            Embed("twitter", h, embedElement, NoPath, None,
                                  tweetId, FALSE)),
          found |-> acc.found \cup {tweetId}]

Twitter1(doc, acc) ==
    LET m == Select(doc, <<>>, IsTweetQuote)
        f[i \in 0..Len(m)] ==
            IF i = 0 THEN acc ELSE Twitter1Step(doc, m[i], f[i - 1])
    IN f[Len(m)]

\* line 756
IsTwitterIframe(n) ==
    n.tag = "iframe" /\ (UrlHas(n.ref, "twitter.com") \/ UrlHas(n.ref, "x.com"))

Twitter2Step_Unshift(doc, p, acc) ==
    LET src == NodeAt(doc, p).ref
        tweetId == IF StatusMatch(src) THEN TweetId("", <<src.id>>)
                   ELSE TweetId("iframe_", <<src.kind, src.id>>)
    IN
    IF tweetId \in acc.found THEN acc
    ELSE [embeds |-> <<Embed("twitter", <<NodeAt(doc, p)>>, p, NoPath, None,
                             tweetId, FALSE)>> \o acc.embeds,
          found |-> acc.found \cup {tweetId}]

\* lines 757-780
Twitter2Step(doc, p, acc) ==
    LET src == NodeAt(doc, p).ref
        tweetId == IF StatusMatch(src) THEN TweetId("", <<src.id>>)
                   ELSE TweetId("iframe_", <<src.kind, src.id>>)
        parent == NodeAt(doc, Parent(p))
        promote ==
            "twitter-tweet" \in parent.cls \/ "twitter-container" \in parent.cls
        embedElement == IF promote THEN Parent(p) ELSE p
    IN
    IF tweetId \in acc.found THEN acc
    ELSE [embeds |-> Append(acc.embeds,
                            Embed("twitter", <<NodeAt(doc, embedElement)>>,
                                  embedElement, NoPath, None, tweetId, FALSE)),
          found |-> acc.found \cup {tweetId}]

Twitter2(doc, acc) ==
    LET m == Select(doc, <<>>, IsTwitterIframe)
        f[i \in 0..Len(m)] ==
            IF i = 0 THEN acc ELSE Twitter2Step(doc, m[i], f[i - 1])
    IN f[Len(m)]

IsBlockquote(n) == n.tag = "blockquote"

\* lines 784-828
Twitter3Step(doc, p, acc) ==
    LET before == PrevSibling(doc, p, IsBlockquote)
        blockquote == IF before # NullPath THEN before
                      ELSE NextSibling(doc, p, IsBlockquote)
        tweetId == QuoteTweetId(doc, blockquote)
    IN
    IF blockquote = NullPath THEN acc
    ELSE IF "twitter-tweet" \notin NodeAt(doc, blockquote).cls THEN acc
    ELSE IF tweetId \in acc.found THEN acc
    ELSE [embeds |-> Append(acc.embeds,
                            Embed("twitter",
                                  <<NodeAt(doc, blockquote), NodeAt(doc, p)>>,
                                  blockquote, NoPath, None, tweetId, FALSE)),
          found |-> acc.found \cup {tweetId}]

Twitter3(doc, acc) ==
    LET m == Select(doc, <<>>, IsWidgetScript)
        f[i \in 0..Len(m)] ==
            IF i = 0 THEN acc ELSE Twitter3Step(doc, m[i], f[i - 1])
    IN f[Len(m)]

-----------------------------------------------------------------------------
(* Pages *)

V1 == "abc12345678"

V2 == "xyz12345678"

T1 == "1234567890"

IframeV1 == Leaf("iframe", {}, Url("yt-embed", V1), "", <<>>)

IframeV1Wide == Leaf("iframe", {}, Url("yt-embed", V1), "width=640", <<>>)

WrappedIframe == Node("div", {"video"}, NoUrl, "", NoUrl, "", <<>>, <<IframeV1>>)

\* a video frame behind another frame in a container with class video
SecondFrame ==
    Node("div", {"video"}, NoUrl, "", NoUrl, "", <<>>,
         <<Leaf("iframe", {}, Url("other", ""), "", <<>>), IframeV1>>)

\* a frame whose src is a watch URL
IframeWatch == Leaf("iframe", {}, Url("yt-watch", V2), "", <<>>)

DataDiv ==
    Node("div", {}, NoUrl, "data-youtube-id", Url("raw", V1), "", <<>>, <<>>)

WatchLink == Leaf("a", {}, Url("yt-watch", V1), "", <<"watch">>)

WrappedShortLink ==
    Node("div", {"embed"}, NoUrl, "", NoUrl, "", <<>>,
         <<Leaf("a", {}, Url("yt-short", V2), "", <<>>)>>)

EmbedLink == Leaf("a", {}, Url("yt-embed", V2), "", <<>>)

InlineScript ==
    Leaf("script", {}, NoUrl, "", <<"youtube.com/watch?v=xyz12345678">>)

Tweet ==
    Node("blockquote", {"twitter-tweet"}, NoUrl, "", NoUrl, "",
         <<"Hello", "world">>,
         <<Leaf("a", {}, Url("tw-status", T1), "", <<"May 1">>)>>)

TextTweet ==
    Node("blockquote", {"twitter-tweet"}, NoUrl, "", NoUrl, "",
         <<"Hello", "world">>, <<>>)

\* a quote without a link whose text begins as that of TextTweet
LongTextTweet ==
    Node("blockquote", {"twitter-tweet"}, NoUrl, "", NoUrl, "",
         <<"Hello", "world", "again", "and", "again">>, <<>>)

WidgetScript == Leaf("script", {}, Url("tw-widgets", ""), "async", <<>>)

\* a quote and its widget-loader script inside a container the strategies
\* promote
TweetContainer ==
    Node("div", {"twitter-container"}, NoUrl, "", NoUrl, "", <<>>,
         <<Tweet, WidgetScript>>)

TweetIframe == Leaf("iframe", {}, Url("tw-status", T1), "", <<>>)

\* a post frame inside a quote that carries the social-embed class
QuoteFrame ==
    Node("blockquote", {"twitter-tweet"}, NoUrl, "", NoUrl, "", <<>>,
         <<TweetIframe>>)

\* the children of body the pages of the model are made of
TopNodes == {IframeV1, IframeV1Wide, WrappedIframe, SecondFrame, IframeWatch,
             DataDiv, WatchLink,
             WrappedShortLink, EmbedLink, InlineScript, Tweet, TextTweet,
             LongTextTweet, WidgetScript, TweetContainer, TweetIframe,
             QuoteFrame}

\* the most children of body in a page
MaxNodes == 3

Docs == UNION { [1..n -> TopNodes] : n \in 0..MaxNodes }

\* new JSDOM(html): the documents of the pages the fetch stage returns
DocOf(h) ==
    CASE h = "plain-html" -> <<IframeV1, DataDiv, WatchLink>>
      [] h = "rendered-html-1" -> <<Tweet, WidgetScript>>
      [] h = "rendered-html-2" -> <<>>

-----------------------------------------------------------------------------
(* parseArticle, lines 505-828: parsing and embed detection *)

ParseHtml_SkipDetection(c) ==
    LET s == st[c] IN
    /\ s.pc = "parse"
    /\ Upd(c, [s EXCEPT !.pc = "readability", !.doc = DocOf(s.html),
                        !.embeds = <<>>,
                        !.status = 0, !.isCloudflareChallenge = FALSE,
                        !.challengeCompleted = FALSE, !.elapsed = 0,
                        !.timedOut = FALSE, !.finalBody = None,
                        !.page = NoPage, !.swallowed = FALSE,
                        !.pollAt = 0, !.closeClicks = 0, !.raised = ""])
    /\ Same /\ UNCHANGED sessions

\* lines 506-513; the locals of fetchWithPuppeteer are gone by now
ParseHtml(c) ==
    LET s == st[c] IN
    /\ s.pc = "parse"
    /\ Upd(c, [s EXCEPT !.pc = "youtube1", !.doc = DocOf(s.html),
                        !.embeds = <<>>,
                        !.status = 0, !.isCloudflareChallenge = FALSE,
                        !.challengeCompleted = FALSE, !.elapsed = 0,
                        !.timedOut = FALSE, !.finalBody = None,
                        !.page = NoPage, !.swallowed = FALSE,
                        !.pollAt = 0, !.closeClicks = 0, !.raised = ""])
    /\ Same /\ UNCHANGED sessions

\* lines 515-536
DetectYoutube1(c) ==
    LET s == st[c] IN
    /\ s.pc = "youtube1"
    /\ Upd(c, [s EXCEPT !.pc = "youtube2", !.embeds = Youtube1(s.doc, s.embeds)])
    /\ Same /\ UNCHANGED sessions

\* lines 538-574
DetectYoutube2(c) ==
    LET s == st[c] IN
    /\ s.pc = "youtube2"
    /\ Upd(c, [s EXCEPT !.pc = "youtube3", !.embeds = Youtube2(s.doc, s.embeds)])
    /\ Same /\ UNCHANGED sessions

\* lines 576-618
DetectYoutube3(c) ==
    LET s == st[c] IN
    /\ s.pc = "youtube3"
    /\ Upd(c, [s EXCEPT !.pc = "youtube4", !.embeds = Youtube3(s.doc, s.embeds)])
    /\ Same /\ UNCHANGED sessions

\* lines 620-639
DetectYoutube4(c) ==
    LET s == st[c] IN
    /\ s.pc = "youtube4"
    /\ Upd(c, [s EXCEPT !.pc = "youtube5", !.embeds = Youtube4(s.doc, s.embeds)])
    /\ Same /\ UNCHANGED sessions

\* lines 641-671
DetectYoutube5(c) ==
    LET s == st[c] IN
    /\ s.pc = "youtube5"
    /\ Upd(c, [s EXCEPT !.pc = "twitter1", !.embeds = Youtube5(s.doc, s.embeds),
                        !.foundTweetIds = {}])
    /\ Same /\ UNCHANGED sessions

\* the pair the social-post strategies thread
Acc(s) == [embeds |-> s.embeds, found |-> s.foundTweetIds]

DetectTwitter1_SharedSet(c) ==
    LET s == st[c]
        shared == UNION { st[d].foundTweetIds : d \in calls }
        r == Twitter1(s.doc, [embeds |-> s.embeds, found |-> shared])
    IN
    /\ s.pc = "twitter1"
    /\ Upd(c, [s EXCEPT !.pc = "twitter2", !.embeds = r.embeds,
                        !.foundTweetIds = r.found])
    /\ Same /\ UNCHANGED sessions

\* lines 673-753
DetectTwitter1(c) ==
    LET s == st[c]
        r == Twitter1(s.doc, Acc(s))
    IN
    /\ s.pc = "twitter1"
    /\ Upd(c, [s EXCEPT !.pc = "twitter2", !.embeds = r.embeds,
                        !.foundTweetIds = r.found])
    /\ Same /\ UNCHANGED sessions

\* lines 755-780
DetectTwitter2(c) ==
    LET s == st[c]
        r == Twitter2(s.doc, Acc(s))
    IN
    /\ s.pc = "twitter2"
    /\ Upd(c, [s EXCEPT !.pc = "twitter3", !.embeds = r.embeds,
                        !.foundTweetIds = r.found])
    /\ Same /\ UNCHANGED sessions

\* lines 782-828
DetectTwitter3(c) ==
    LET s == st[c]
        r == Twitter3(s.doc, Acc(s))
    IN
    /\ s.pc = "twitter3"
    /\ Upd(c, [s EXCEPT !.pc = "readability", !.embeds = r.embeds,
                        !.foundTweetIds = r.found])
    /\ Same /\ UNCHANGED sessions

-----------------------------------------------------------------------------
(* parseArticle, lines 830-972: content extraction and reconciliation *)

\* the HTML parser on serialized markup (new JSDOM(...) of line 839,
\* innerHTML = ... of line 862): the tree the markup was serialized from,
\* except that a line feed right after the start tag of pre is dropped
RECURSIVE ParseFragment(_)
ParseFragment(frag) ==
    [i \in DOMAIN frag |->
        LET n == frag[i] IN
        [n EXCEPT !.text = IF n.tag = "pre" /\ n.text # <<>> /\ n.text[1] = "\n"
                           THEN Tail(n.text) ELSE n.text,
                  !.kids = ParseFragment(n.kids)]]

\* the page container Readability puts around the content it keeps
PageDiv(kids) ==
    Node("div", {"page"}, NoUrl, "", NoUrl, "id=readability-page-1", <<>>, kids)

Para == Leaf("p", {}, NoUrl, "", <<"Some", "text">>)

\* a code block whose text starts with a blank line
CodeBlock == Leaf("pre", {}, NoUrl, "", <<"\n", "code">>)

\* article.content: what Readability can distil from the text of a page
Contents == { <<PageDiv(<<Para>>)>>,
              <<PageDiv(<<Para, IframeV1>>)>>,
              <<PageDiv(<<Para, CodeBlock>>)>> }

\* a frame of the content is a frame of the page
Distills(doc, content) ==
    \A n \in NodesOf(content) : n.tag = "iframe" => n \in NodesOf(doc)

\* the metadata reader.parse() can return: with or without byline and site
Metas == { [title |-> "Title", excerpt |-> "Excerpt", byline |-> None,
            siteName |-> None],
           [title |-> "Other title", excerpt |-> "", byline |-> "Author",
            siteName |-> "Site"] }

\* what reader.parse() can return for a document, not null
Articles(doc) ==
    { [title |-> m.title, content |-> k, excerpt |-> m.excerpt,
       byline |-> m.byline, siteName |-> m.siteName] :
        k \in { k \in Contents : Distills(doc, k) }, m \in Metas }

\* line 835
ExtractionFailed ==
    [kind |-> "ExtractionFailed",
     msg |-> <<"Could not extract article content from this URL">>]

\* element.style.cssText = css
Styled(n, css) == [n EXCEPT !.style = css]

\* lines 857-858, 959: the wrapper of one embed
Wrapper(type, css, kids) ==
    Styled(Node("div",
                {"embed-wrapper",
                 IF type = "youtube" THEN "embed-youtube" ELSE "embed-twitter"},
                NoUrl, "", NoUrl, "", <<>>, kids),
           css)

\* lines 870-874, 889-893: createElement('iframe') with its attributes
CreatedFrame(videoId) ==
    Leaf("iframe", {}, Url("yt-embed", videoId),
         "frameborder allow allowfullscreen", <<>>)

IsIframe(n) == n.tag = "iframe"

IsYoutubeAnchor_WatchOnly(n) ==
    n.tag = "a" /\ UrlHas(n.ref, "youtube.com/watch")

\* line 886
IsYoutubeAnchor(n) ==
    n.tag = "a" /\ (UrlHas(n.ref, "youtube") \/ UrlHas(n.ref, "youtu.be"))

\* lines 865-903
YoutubeWrapper(embed) ==
    LET temp0 == ParseFragment(embed.html)
        temp == IF /\ SelectFirst(temp0, <<>>, IsIframe) = NullPath
                   /\ embed.isGenerated /\ Truthy(embed.videoId)
                THEN Append(temp0, CreatedFrame(embed.videoId))
                ELSE temp0
        iframe == SelectFirst(temp, <<>>, IsIframe)
        link == SelectFirst(temp, <<>>, IsYoutubeAnchor)
    IN
    IF iframe # NullPath
    THEN Wrapper("youtube", "video-box", <<Styled(NodeAt(temp, iframe), "fill")>>)
    ELSE IF link # NullPath /\ Truthy(embed.videoId)
    THEN Wrapper("youtube", "video-box",
                 <<Styled(CreatedFrame(embed.videoId), "fill")>>)
    ELSE Wrapper("youtube", "center",
                 <<Node("div", {}, NoUrl, "", NoUrl, "", <<>>, temp)>>)

\* line 927
IsTwitterAnchor(n) ==
    n.tag = "a" /\ (UrlHas(n.ref, "twitter") \/ UrlHas(n.ref, "x.com"))

IsStatusId_AnyId(t) == t.body # <<>>

\* line 929: the identifier is one parsed from a status URL
IsStatusId(t) == t.pre = "" /\ t.body # <<>>

\* lines 930-933
FallbackLink(t) ==
    Leaf("a", {}, Url("tw-status", t.body[1]), "", <<"View on Twitter">>)

\* the fragment with the element at path p replaced by n
RECURSIVE ReplaceAt(_, _, _)
ReplaceAt(frag, p, n) ==
    IF Len(p) = 1 THEN [frag EXCEPT ![p[1]] = n]
    ELSE [frag EXCEPT ![p[1]] =
              [frag[p[1]] EXCEPT !.kids = ReplaceAt(frag[p[1]].kids, Tail(p), n)]]

\* lines 919-954: what the loop does to one child before it moves it
TwitterChild(embed, child) ==
    LET tweet(q) == Styled([q EXCEPT !.cls = q.cls \cup {"twitter-tweet"}],
                           "tweet")
        nested == SelectFirst(<<child>>, <<1>>, IsBlockquote)
    IN
    CASE child.tag = "blockquote" ->
             IF /\ SelectFirst(<<child>>, <<1>>, IsTwitterAnchor) = NullPath
                /\ IsStatusId(embed.tweetId)
             THEN [tweet(child) EXCEPT
                      !.kids = Append(child.kids, FallbackLink(embed.tweetId))]
             ELSE tweet(child)
      [] child.tag = "iframe" -> Styled(child, "tweet-frame")
      [] child.tag = "div" ->
             IF nested = NullPath THEN child
             ELSE ReplaceAt(<<child>>, nested,
                            tweet(NodeAt(<<child>>, nested)))[1]
      [] OTHER -> child

\* lines 906-956
TwitterWrapper(embed) ==
    LET temp == SelectSeq(ParseFragment(embed.html),
                          LAMBDA n : n.tag # "script")
    IN Wrapper("twitter", "tweet-box",
               [i \in DOMAIN temp |-> TwitterChild(embed, temp[i])])

\* lines 839-963: contentBody.innerHTML after every embed was appended
Reconciled(content, embeds) ==
    ParseFragment(content)
    \o [i \in DOMAIN embeds |->
           IF embeds[i].type = "youtube" THEN YoutubeWrapper(embeds[i])
           ELSE TwitterWrapper(embeds[i])]

Extract_EmptyResult(c) ==
    LET s == st[c] IN
    /\ s.pc = "readability"
    /\ \/ \E a \in Articles(s.doc) :
            Upd(c, [s EXCEPT !.article = <<a>>, !.pc = "reconcile"])
       \/ Upd(c, [s EXCEPT !.pc = "returned",
                           !.result = <<[title |-> None, content |-> <<>>,
                                         excerpt |-> None, byline |-> None,
                                         siteName |-> None]>>])
    /\ Same /\ UNCHANGED sessions

\* lines 831-836: reader.parse() returns an article or null
Extract(c) ==
    LET s == st[c] IN
    /\ s.pc = "readability"
    /\ \/ \E a \in Articles(s.doc) :
            Upd(c, [s EXCEPT !.article = <<a>>, !.pc = "reconcile"])
       \/ Upd(c, [s EXCEPT !.pc = "failed", !.err = ExtractionFailed])
    /\ Same /\ UNCHANGED sessions

Reconcile_FillByline(c) ==
    LET s == st[c]
        a == s.article[1]
    IN
    /\ s.pc = "reconcile"
    /\ Upd(c, [s EXCEPT
                 !.pc = "returned",
                 !.result = <<[title |-> a.title,
                               content |-> Reconciled(a.content, s.embeds),
                               excerpt |-> a.excerpt,
                               byline |-> IF a.byline = None THEN a.siteName
                                          ELSE a.byline,
                               siteName |-> IF a.siteName = None THEN a.title
                                            ELSE a.siteName]>>])
    /\ Same /\ UNCHANGED sessions

\* lines 838-972
Reconcile(c) ==
    LET s == st[c]
        a == s.article[1]
    IN
    /\ s.pc = "reconcile"
    /\ Upd(c, [s EXCEPT
                 !.pc = "returned",
                 !.result = <<[title |-> a.title,
                               content |-> Reconciled(a.content, s.embeds),
                               excerpt |-> a.excerpt, byline |-> a.byline,
                               siteName |-> a.siteName]>>])
    /\ Same /\ UNCHANGED sessions

-----------------------------------------------------------------------------

\* detection, extraction and reconciliation, from a parsed document
NextDetect ==
    \/ \E c \in calls : DetectYoutube1(c)
    \/ \E c \in calls : DetectYoutube2(c)
    \/ \E c \in calls : DetectYoutube3(c)
    \/ \E c \in calls : DetectYoutube4(c)
    \/ \E c \in calls : DetectYoutube5(c)
    \/ \E c \in calls : DetectTwitter1(c)
    \/ \E c \in calls : DetectTwitter2(c)
    \/ \E c \in calls : DetectTwitter3(c)
    \/ \E c \in calls : Extract(c)
    \/ \E c \in calls : Reconcile(c)

Next ==
    \/ \E c \in calls : Validate(c)
    \/ \E c \in calls : PlainSucceeds(c)
    \/ \E c \in calls : PlainFails(c)
    \/ \E c \in calls : RenderSettles(c)
    \/ \E c \in calls : Launch(c)
    \/ \E c \in calls : LaunchThrows(c)
    \/ \E c \in calls : Setup(c)
    \/ \E c \in calls : Navigate(c)
    \/ \E c \in calls : DetectChallenge(c)
    \/ \E c \in calls : Interact(c)
    \/ \E c \in calls : LoopPoll(c)
    \/ \E c \in calls : LoopExhausted(c)
    \/ \E c \in calls : FinalCheck(c)
    \/ \E c \in calls : ChallengeCatch(c)
    \/ \E c \in calls : HttpCheck(c)
    \/ \E c \in calls : DismissModal(c)
    \/ \E c \in calls : PressEscape(c)
    \/ \E c \in calls : ClickBody(c)
    \/ \E c \in calls : ScrollDown(c)
    \/ \E c \in calls : WaitForArticle(c)
    \/ \E c \in calls : Capture(c)
    \/ \E c \in calls : CloseBrowser(c)
    \/ \E c \in calls : NoBrowser(c)
    \/ \E c \in calls : ParseHtml(c)
    \/ NextDetect

Spec == Init /\ [][Next]_vars

\* a call that has fetched and parsed a page of the model
InitDetect ==
    /\ env = {}
    /\ installed = "puppeteer"
    /\ calls = {1}
    /\ \E d \in Docs :
         st = [c \in {1} |->
                 [InitCall([scheme |-> "https", host |-> "example.com",
                            path |-> "/post"])
                    EXCEPT !.pc = "youtube1", !.plainAttempts = 1,
                           !.html = "page-html", !.doc = d]]
    /\ sessions = <<>>

SpecDetect == InitDetect /\ [][NextDetect]_vars

-----------------------------------------------------------------------------
(* Two calls in progress at once. Each await of the code is a point where  *)
(* the other call can run, and each action is the code between two awaits. *)
(* The scope keeps what the environment hands to each call small.          *)

\* the longest challenge loop, in seconds, of a call of the pair
MaxPairElapsed == 4

PairPages ==
    { [body |-> "article text", justAMoment |-> FALSE, hasContent |-> TRUE,
       urlChanged |-> FALSE],
      [body |-> "checking your browser", justAMoment |-> FALSE,
       hasContent |-> FALSE, urlChanged |-> FALSE] }

\* the inputs of one call of the pair
InPairScope(s) ==
    /\ s.page \in PairPages \cup {NoPage}
    /\ s.elapsed <= MaxPairElapsed
    /\ s.plainErr \in {NoPlainErr, HttpFailure(403), HttpFailure(404)}
    /\ s.status \in {0, 200, 403}
    /\ ~Includes(s.rerr, "Navigation timeout of ")
    /\ ~s.swallowed /\ s.raised # "verify"
    /\ s.article # <<>> => /\ s.article[1].content = <<PageDiv(<<Para>>)>>
                          /\ s.article[1].byline = None

PairScope == \A c \in calls : InPairScope(st[c])

NextPair ==
    \/ (\E c \in calls : Validate(c)) /\ PairScope'
    \/ (\E c \in calls : PlainSucceeds(c)) /\ PairScope'
    \/ (\E c \in calls : PlainFails(c)) /\ PairScope'
    \/ (\E c \in calls : RenderSettles(c)) /\ PairScope'
    \/ (\E c \in calls : Launch(c)) /\ PairScope'
    \/ (\E c \in calls : LaunchThrows(c)) /\ PairScope'
    \/ (\E c \in calls : Setup(c)) /\ PairScope'
    \/ (\E c \in calls : Navigate(c)) /\ PairScope'
    \/ (\E c \in calls : DetectChallenge(c)) /\ PairScope'
    \/ (\E c \in calls : Interact(c)) /\ PairScope'
    \/ (\E c \in calls : LoopPoll(c)) /\ PairScope'
    \/ (\E c \in calls : ChallengeCatch(c)) /\ PairScope'
    \/ (\E c \in calls : HttpCheck(c)) /\ PairScope'
    \/ (\E c \in calls : DismissModal(c)) /\ PairScope'
    \/ (\E c \in calls : PressEscape(c)) /\ PairScope'
    \/ (\E c \in calls : ClickBody(c)) /\ PairScope'
    \/ (\E c \in calls : ScrollDown(c)) /\ PairScope'
    \/ (\E c \in calls : WaitForArticle(c)) /\ PairScope'
    \/ (\E c \in calls : Capture(c)) /\ PairScope'
    \/ (\E c \in calls : CloseBrowser(c)) /\ PairScope'
    \/ (\E c \in calls : NoBrowser(c)) /\ PairScope'
    \/ (\E c \in calls : ParseHtml(c)) /\ PairScope'
    \/ (\E c \in calls : DetectYoutube1(c)) /\ PairScope'
    \/ (\E c \in calls : DetectYoutube2(c)) /\ PairScope'
    \/ (\E c \in calls : DetectYoutube3(c)) /\ PairScope'
    \/ (\E c \in calls : DetectYoutube4(c)) /\ PairScope'
    \/ (\E c \in calls : DetectYoutube5(c)) /\ PairScope'
    \/ (\E c \in calls : DetectTwitter1(c)) /\ PairScope'
    \/ (\E c \in calls : DetectTwitter2(c)) /\ PairScope'
    \/ (\E c \in calls : DetectTwitter3(c)) /\ PairScope'
    \/ (\E c \in calls : Extract(c)) /\ PairScope'
    \/ (\E c \in calls : Reconcile(c)) /\ PairScope'

InitPair ==
    /\ env = {}
    /\ installed = "puppeteer"
    /\ calls = {1, 2}
    /\ st = [c \in {1, 2} |->
               InitCall([scheme |-> "https", host |-> "example.com",
                         path |-> "/post"])]
    /\ sessions = <<>>

SpecPair == InitPair /\ [][NextPair]_vars

-----------------------------------------------------------------------------
(* One render call on its own: fetchWithPuppeteer from its call to the     *)
(* point where parseArticle has its result. Every await of the call is on  *)
(* a timer or on a browser-driver primitive; with each primitive returning *)
(* or throwing, the continuation of the call runs, which is weak fairness  *)
(* of its next step.                                                       *)

NextRender ==
    \/ \E c \in calls : Launch(c)
    \/ \E c \in calls : LaunchThrows(c)
    \/ \E c \in calls : Setup(c)
    \/ \E c \in calls : Navigate(c)
    \/ \E c \in calls : DetectChallenge(c)
    \/ \E c \in calls : Interact(c)
    \/ \E c \in calls : LoopPoll(c)
    \/ \E c \in calls : LoopExhausted(c)
    \/ \E c \in calls : FinalCheck(c)
    \/ \E c \in calls : ChallengeCatch(c)
    \/ \E c \in calls : HttpCheck(c)
    \/ \E c \in calls : DismissModal(c)
    \/ \E c \in calls : PressEscape(c)
    \/ \E c \in calls : ClickBody(c)
    \/ \E c \in calls : ScrollDown(c)
    \/ \E c \in calls : WaitForArticle(c)
    \/ \E c \in calls : Capture(c)
    \/ \E c \in calls : CloseBrowser(c)
    \/ \E c \in calls : NoBrowser(c)
    \/ \E c \in calls : RenderSettles(c)

\* parseArticle has called fetchWithPuppeteer after a blocked plain attempt
InitRender ==
    /\ env = {}
    /\ installed = "puppeteer"
    /\ calls = {1}
    /\ st = [c \in {1} |->
               [InitCall([scheme |-> "https", host |-> "example.com",
                          path |-> "/post"])
                  EXCEPT !.pc = "render", !.plainAttempts = 1,
                         !.plainErr = HttpFailure(403),
                         !.puppeteerCalls = 1, !.rpc = "launch"]]
    /\ sessions = <<>>

SpecRender == InitRender /\ [][NextRender]_vars /\ WF_vars(NextRender)

-----------------------------------------------------------------------------
(* Two calls that fetched pages of identical content: detection runs once  *)
(* in each, on its own document, and the steps of the two interleave.      *)

\* the most children of body in a page both calls fetched
MaxTwinNodes == 2

NextTwin ==
    \/ \E c \in calls : DetectYoutube1(c)
    \/ \E c \in calls : DetectYoutube2(c)
    \/ \E c \in calls : DetectYoutube3(c)
    \/ \E c \in calls : DetectYoutube4(c)
    \/ \E c \in calls : DetectYoutube5(c)
    \/ \E c \in calls : DetectTwitter1(c)
    \/ \E c \in calls : DetectTwitter2(c)
    \/ \E c \in calls : DetectTwitter3(c)

InitTwin ==
    /\ env = {}
    /\ installed = "puppeteer"
    /\ calls = {1, 2}
    /\ \E d \in UNION { [1..n -> TopNodes] : n \in 0..MaxTwinNodes } :
         st = [c \in {1, 2} |->
                 [InitCall([scheme |-> "https", host |-> "example.com",
                            path |-> "/post"])
                    EXCEPT !.pc = "youtube1", !.plainAttempts = 1,
                           !.html = "page-html", !.doc = d]]
    /\ sessions = <<>>

SpecTwin == InitTwin /\ [][NextTwin]_vars
-----------------------------------------------------------------------------
(* The web server: server.js, app.post('/api/parse') *)

statusCode_Forbidden(msg) ==
    IF msg = <<"Invalid URL format">> THEN 400
    ELSE IF msg = <<"Could not extract article content from this URL">> THEN 400
    ELSE IF Includes(msg, "Failed to fetch URL")
    THEN (IF Includes(msg, "403") \/ Includes(msg, "Forbidden") THEN 403
          ELSE 500)
    ELSE 500

\* server.js lines 32-40: the status for the message of an error
statusCode(msg) ==
    IF msg = <<"Invalid URL format">> THEN 400
    ELSE IF msg = <<"Could not extract article content from this URL">> THEN 400
    ELSE IF Includes(msg, "Failed to fetch URL")
    THEN (IF Includes(msg, "403") THEN 403 ELSE 500)
    ELSE 500

\* server.js lines 16-24: the handler reads url from the body and either
\* answers 400 or calls parseArticle
Receive(c) ==
    LET s == st[c] IN
    /\ s.pc = "request"
    /\ IF ~s.hasUrl
       THEN Upd(c, [s EXCEPT !.pc = "responded",
                             !.res = [status |-> 400,
                                      error |-> <<"URL is required">>,
                                      article |-> <<>>]])
       ELSE Upd(c, [s EXCEPT !.pc = "start", !.invoked = TRUE])
    /\ Same /\ UNCHANGED sessions

\* server.js lines 24-42: parseArticle has returned or thrown
Respond(c) ==
    LET s == st[c] IN
    /\ s.invoked /\ s.pc \in {"returned", "failed"}
    /\ IF s.pc = "returned"
       THEN Upd(c, [s EXCEPT !.pc = "responded",
                             !.res = [status |-> 200, error |-> <<>>,
                                      article |-> s.result]])
       ELSE Upd(c, [s EXCEPT !.pc = "responded",
                             !.res = [status |-> statusCode(s.err.msg),
                                      error |-> s.err.msg,
                                      article |-> <<>>]])
    /\ Same /\ UNCHANGED sessions

NextServer ==
    \/ \E c \in calls : Receive(c)
    \/ \E c \in calls : Validate(c)
    \/ \E c \in calls : PlainSucceeds(c)
    \/ \E c \in calls : PlainFails(c)
    \/ \E c \in calls : RenderSettles(c)
    \/ \E c \in calls : Launch(c)
    \/ \E c \in calls : LaunchThrows(c)
    \/ \E c \in calls : Setup(c)
    \/ \E c \in calls : Navigate(c)
    \/ \E c \in calls : DetectChallenge(c)
    \/ \E c \in calls : Interact(c)
    \/ \E c \in calls : LoopPoll(c)
    \/ \E c \in calls : LoopExhausted(c)
    \/ \E c \in calls : FinalCheck(c)
    \/ \E c \in calls : ChallengeCatch(c)
    \/ \E c \in calls : HttpCheck(c)
    \/ \E c \in calls : DismissModal(c)
    \/ \E c \in calls : PressEscape(c)
    \/ \E c \in calls : ClickBody(c)
    \/ \E c \in calls : ScrollDown(c)
    \/ \E c \in calls : WaitForArticle(c)
    \/ \E c \in calls : Capture(c)
    \/ \E c \in calls : CloseBrowser(c)
    \/ \E c \in calls : NoBrowser(c)
    \/ \E c \in calls : ParseHtml(c)
    \/ \E c \in calls : DetectYoutube1(c)
    \/ \E c \in calls : DetectYoutube2(c)
    \/ \E c \in calls : DetectYoutube3(c)
    \/ \E c \in calls : DetectYoutube4(c)
    \/ \E c \in calls : DetectYoutube5(c)
    \/ \E c \in calls : DetectTwitter1(c)
    \/ \E c \in calls : DetectTwitter2(c)
    \/ \E c \in calls : DetectTwitter3(c)
    \/ \E c \in calls : Extract(c)
    \/ \E c \in calls : Reconcile(c)
    \/ \E c \in calls : Respond(c)

\* one request to the web server, with or without a url in its body
InitServer ==
    /\ env \in Envs
    /\ installed \in Packages
    /\ calls = {1}
    /\ \E u \in Urls, b \in BOOLEAN :
          st = [c \in {1} |-> [InitCall(u) EXCEPT !.pc = "request",
                                                  !.hasUrl = b]]
    /\ sessions = <<>>

SpecServer == InitServer /\ [][NextServer]_vars

-----------------------------------------------------------------------------
(* The serverless handler: netlify/functions/parse.js, exports.handler *)

HttpMethods == {"POST", "GET"}

\* parse.js lines 552-562: the catch of the handler
HandlerError(m) ==
    [status |-> 500,
     error |-> <<"An error occurred while parsing the article: ">> \o m,
     article |-> <<>>]

Answer(n, m) == [status |-> n, error |-> m, article |-> <<>>]

handlerEmbeds_SkipLinks(doc) ==
    LET y == Youtube5(doc, Youtube4(doc,
                 Youtube2(doc, Youtube1(doc, <<>>))))
    IN Twitter3(doc, Twitter2(doc, Twitter1(doc, [embeds |-> y, found |-> {}])))

\* parse.js lines 77-393: the eight strategies, in the order of the file
handlerEmbeds(doc) ==
    LET y == Youtube5(doc, Youtube4(doc, Youtube3(doc,
                 Youtube2(doc, Youtube1(doc, <<>>)))))
    IN Twitter3(doc, Twitter2(doc, Twitter1(doc, [embeds |-> y, found |-> {}])))

\* parse.js lines 67-551: the page is parsed, searched for embeds and
\* distilled, and the embeds are put back; a is what reader.parse()
\* returned, <<>> for null
handlerPipeline(doc, a) ==
    IF a = <<>>
    THEN Answer(400, <<"Could not extract article content from this URL">>)
    ELSE [status |-> 200, error |-> <<>>,
          article |-> <<[title |-> a[1].title,
                         content |-> Reconciled(a[1].content,
                                                handlerEmbeds(doc).embeds),
                         excerpt |-> a[1].excerpt, byline |-> a[1].byline,
                         siteName |-> a[1].siteName]>>]

\* parse.js lines 5-563: one invocation of the handler, for the URL of a
\* call of parseArticle that has ended; when its fetch gets the page that
\* call had, the DOM and the extraction collaborator give it what they gave
\* that call
Handle(c) ==
    LET s == st[c]
        distilled == IF s.pc = "returned" THEN s.article ELSE <<>>
    IN
    /\ s.pc \in {"returned", "failed"} /\ s.res = NoRes
    /\ \E method \in HttpMethods, bodyParses \in BOOLEAN, hasUrl \in BOOLEAN :
         IF method # "POST"
         THEN Upd(c, [s EXCEPT !.res = Answer(405, <<"Method not allowed">>)])
         ELSE IF ~bodyParses
         THEN Upd(c, [s EXCEPT !.res = HandlerError(<<"Unexpected token">>)])
         ELSE IF ~hasUrl
         THEN Upd(c, [s EXCEPT !.res = Answer(400, <<"URL is required">>)])
         ELSE IF ~UrlParses(s.url)
         THEN Upd(c, [s EXCEPT !.res = Answer(400, <<"Invalid URL format">>)])
         ELSE \/ \E m \in TransportMsgs :
                   Upd(c, [s EXCEPT !.res = HandlerError(m)])
              \/ \E n \in PlainStatuses \ {200} :
                   Upd(c, [s EXCEPT !.res = Answer(n, HttpFailure(n).msg)])
              \/ Upd(c, [s EXCEPT !.fetched = TRUE,
                                  !.res = handlerPipeline(s.doc, distilled)])
    /\ Same /\ UNCHANGED sessions

NextHandler ==
    \/ \E c \in calls : DetectYoutube1(c)
    \/ \E c \in calls : DetectYoutube2(c)
    \/ \E c \in calls : DetectYoutube3(c)
    \/ \E c \in calls : DetectYoutube4(c)
    \/ \E c \in calls : DetectYoutube5(c)
    \/ \E c \in calls : DetectTwitter1(c)
    \/ \E c \in calls : DetectTwitter2(c)
    \/ \E c \in calls : DetectTwitter3(c)
    \/ \E c \in calls : Extract(c)
    \/ \E c \in calls : Reconcile(c)
    \/ \E c \in calls : Handle(c)

\* the pages of the comparison have at most this many top-level elements
MaxHandlerNodes == 2

\* a call of parseArticle that has fetched and parsed a page of the model
InitHandler ==
    /\ env = {}
    /\ installed = "puppeteer"
    /\ calls = {1}
    /\ \E d \in UNION { [1..n -> TopNodes] : n \in 0..MaxHandlerNodes } :
         st = [c \in {1} |->
                 [InitCall([scheme |-> "https", host |-> "example.com",
                            path |-> "/post"])
                    EXCEPT !.pc = "youtube1", !.plainAttempts = 1,
                           !.html = "page-html", !.doc = d]]
    /\ sessions = <<>>

\* parseArticle on a page of the model, then the handler on the same URL
SpecHandler == InitHandler /\ [][NextHandler]_vars

-----------------------------------------------------------------------------
(* Fetch orchestrator *)

TimeoutToken == "Cloudflare challenge detected but did not complete in time. "

\* the last n tokens of a message
Suffix(m, n) == SubSeq(m, Len(m) - n + 1, Len(m))

\* C1: when the plain attempt failed with status 403 and automation is
\* available, fetchWithPuppeteer is called exactly once, and once it has
\* returned HTML the fetch stage has raised nothing (the only error left
\* to the call is that of the extraction) and html is the rendered HTML,
\* which is what the parse stage receives.
C1_EscalationOnce ==
    \A c \in calls :
        LET s == st[c] IN
        (s.plainErr.statusCode = "403" /\ installed # None
           /\ env \cap EnvNames = {})
        => /\ s.puppeteerCalls = 1
           /\ s.returned = "html"
                => /\ s.pc # "render" /\ s.err \in {NoError, ExtractionFailed}
                   /\ s.html = s.captured /\ s.html \in RenderedHtmls
                   /\ s.pc # "parse" => s.doc = DocOf(s.captured)

C1_Witness ==
    \E c \in calls :
        /\ st[c].plainErr.statusCode = "403" /\ st[c].returned = "html"
        /\ st[c].pc = "youtube1" /\ st[c].html \in RenderedHtmls
        /\ st[c].doc # <<>>

\* C2: a plain failure that is not classified as blocked (status 404, for
\* one) never escalates: fetchWithPuppeteer is not called, no session is
\* launched, and parseArticle has failed with the plain error itself.
C2_NoEscalation ==
    \A c \in calls :
        LET s == st[c] IN
        (s.plainErr # NoPlainErr /\ ~isBlocked(s.plainErr))
        => /\ s.puppeteerCalls = 0 /\ s.launches = 0 /\ sessions = <<>>
           /\ s.pc = "failed" /\ s.html = None
           /\ s.err.kind = "FetchFailed" /\ s.err.msg = s.plainErr.msg

C2_Witness ==
    \E c \in calls :
        /\ st[c].plainErr.statusCode = "404" /\ st[c].pc = "failed"
        /\ st[c].err.kind = "FetchFailed"

\* C3: in a call the plain strategy is attempted at most once and the
\* browser strategy at most once, whatever the outcomes.
C3_AtMostOnce ==
    \A c \in calls :
        /\ st[c].plainAttempts <= 1
        /\ st[c].puppeteerCalls <= 1
        /\ st[c].launches <= 1

C3_Witness ==
    \E c \in calls :
        /\ st[c].pc = "failed" /\ st[c].returned = "error"
        /\ st[c].plainAttempts = 1 /\ st[c].puppeteerCalls = 1

\* C4: a blocked plain failure without automation fails at once with
\* AutomationUnavailable, no session launched; the message names the
\* serverless cause in a restricted environment, the not-installed cause
\* otherwise.
C4_Unavailable ==
    \A c \in calls :
        LET s == st[c]
            restricted == env \cap EnvNames # {}
            unavailable == restricted \/ installed = None
        IN
        (s.plainErr # NoPlainErr /\ isBlocked(s.plainErr) /\ unavailable)
        => /\ s.pc = "failed" /\ s.err.kind = "AutomationUnavailable"
           /\ s.puppeteerCalls = 0 /\ s.launches = 0 /\ sessions = <<>>
           /\ Includes(s.err.msg, "not available in serverless environments")
                <=> restricted
           /\ Includes(s.err.msg, "Install Puppeteer with: npm install puppeteer")
                <=> ~restricted

C4_Witness ==
    \E c \in calls :
        /\ st[c].plainErr.statusCode = "403" /\ env = {"NETLIFY_DEV"}
        /\ st[c].err.kind = "AutomationUnavailable"

\* C5: when the escalation failed, parseArticle raises LikelyAntiBot if the
\* message of the browser-automation error has the 500 pattern and
\* BrowserAutomationFailed otherwise, and the raised message ends with the
\* message of the plain error.
C5_EscalationFailure ==
    \A c \in calls :
        LET s == st[c] IN
        s.returned = "error"
        => /\ s.pc = "failed"
           /\ s.err.kind = IF Includes(s.rerr, "500") THEN "LikelyAntiBot"
                           ELSE "BrowserAutomationFailed"
           /\ Suffix(s.err.msg, Len(s.plainErr.msg)) = s.plainErr.msg
           /\ s.plainErr.msg # <<>>

C5_Witness ==
    \E c \in calls :
        /\ st[c].err.kind = "LikelyAntiBot" /\ st[c].status = 500
        /\ st[c].returned = "error" /\ Includes(st[c].rerr, "HTTP ")

\* C6: a malformed URL fails with InvalidUrl before any fetch strategy is
\* attempted and before any later stage runs.
C6_InvalidUrl ==
    \A c \in calls :
        LET s == st[c] IN
        (~(s.url.scheme # "" /\ s.url.host # "") /\ s.pc # "start")
        => /\ s.pc = "failed" /\ s.err.kind = "InvalidUrl"
           /\ s.plainAttempts = 0 /\ s.puppeteerCalls = 0 /\ s.launches = 0
           /\ s.html = None /\ sessions = <<>>
           /\ s.doc = <<>> /\ s.embeds = <<>> /\ s.foundTweetIds = {}

C6_Witness ==
    \E c \in calls : st[c].url.scheme = "" /\ st[c].err.kind = "InvalidUrl"

-----------------------------------------------------------------------------
(* Browser automation controller *)

\* C7: a render call that launched a session has called close on it,
\* once, before it settles, on every exit path; whether close resolved or
\* rejected, the call returns HTML exactly when page.content() returned it
\* and otherwise throws the error of its try block.
C7_SessionClosed ==
    \A c \in calls :
        LET s == st[c] IN
        (s.rpc \in {"settle", "done"} /\ s.launches > 0)
        => /\ s.closeCalls = 1
           /\ sessions[s.browser].owner = c
           /\ sessions[s.browser].state \in {"closed", "close-failed"}
           /\ (s.rerr = <<>>) <=> (s.captured # None)
           /\ s.rpc = "done" => (s.returned = "html" <=> s.captured # None)
           /\ ~Includes(s.rerr, "Error closing browser:")

C7_Witness ==
    \E c \in calls :
        /\ st[c].rpc = "done" /\ st[c].launches = 1
        /\ st[c].returned = "error" /\ st[c].closeCalls = 1
        /\ sessions[st[c].browser].state = "close-failed"

-----------------------------------------------------------------------------
(* Embed detection *)

\* the identifier of the content a descriptor stands for: its videoId or
\* tweetId if it carries one, else the identifier in the src of its iframe
SourceId(doc, e) ==
    IF e.videoId # None THEN e.videoId
    ELSE IF e.tweetId # NoTweetId THEN e.tweetId
    ELSE IF e.iframe # NoPath THEN NodeAt(doc, e.iframe).ref.id
    ELSE None

ExposedByIframe(doc, v) ==
    \E i \in DOMAIN AllPaths(doc) :
        LET n == NodeAt(doc, AllPaths(doc)[i]) IN
        IsYoutubeIframe(n) /\ n.ref.id = v

ExposedByDataDiv(doc, v) ==
    \E i \in DOMAIN AllPaths(doc) :
        LET n == NodeAt(doc, AllPaths(doc)[i]) IN
        n.tag = "div" /\ n.dataName = "data-youtube-id" /\ DataVideoId(n.data) = v

ExposedByWatchLink(doc, v) ==
    \E i \in DOMAIN AllPaths(doc) :
        LET n == NodeAt(doc, AllPaths(doc)[i]) IN
        n.tag = "a" /\ UrlHas(n.ref, "youtube.com/watch") /\ LinkVideoId(n.ref) = v

DescriptorsFor(s, v) ==
    { i \in DOMAIN s.embeds :
        s.embeds[i].type = "youtube" /\ SourceId(s.doc, s.embeds[i]) = v }

\* C9: for every document that exposes one video identifier through an
\* iframe, a data-attribute container and a watch-link anchor, the embed
\* list that detection produced holds exactly one descriptor for that
\* identifier.
C9_OneDescriptor ==
    \A c \in calls :
        LET s == st[c] IN
        s.pc = "readability"
        => \A v \in VideoIds :
               ( /\ ExposedByIframe(s.doc, v)
                 /\ ExposedByDataDiv(s.doc, v)
                 /\ ExposedByWatchLink(s.doc, v) )
               => Cardinality(DescriptorsFor(s, v)) = 1

\* C10: after each of the five video strategies and the three social-post
\* strategies, in any document, no two descriptors of one kind in the
\* embed list stand for the same identifier.
C10_UniqueIds ==
    \A c \in calls :
        LET s == st[c] IN
        s.pc \in {"youtube2", "youtube3", "youtube4", "youtube5",
                  "twitter1", "twitter2", "twitter3", "readability"}
        => \A i, j \in DOMAIN s.embeds :
               (i # j /\ s.embeds[i].type = s.embeds[j].type)
               => SourceId(s.doc, s.embeds[i]) # SourceId(s.doc, s.embeds[j])

\* the src of the frame elements of a fragment, in document order
RECURSIVE FrameSources(_)
FrameSources(frag) ==
    LET f[i \in 0..Len(frag)] ==
            IF i = 0 THEN <<>>
            ELSE f[i - 1]
                 \o (IF frag[i].tag = "iframe" THEN <<frag[i].ref>> ELSE <<>>)
                 \o FrameSources(frag[i].kids)
    IN f[Len(frag)]

\* C11: every video descriptor in the embed list, whichever strategy
\* produced it, carries a video identifier, and its markup holds exactly one
\* frame element, whose source embeds that identifier.
C11_VideoDescriptors ==
    \A c \in calls :
        LET s == st[c] IN
        \A i \in DOMAIN s.embeds :
            LET e == s.embeds[i] IN
            e.type = "youtube"
            => /\ e.videoId \in VideoIds
               /\ Len(FrameSources(e.html)) = 1
               /\ FrameSources(e.html)[1].id = e.videoId

-----------------------------------------------------------------------------
(* Reconciliation *)

\* the elements of a document, in document order
Elements(doc) == [i \in DOMAIN AllPaths(doc) |-> NodeAt(doc, AllPaths(doc)[i])]

\* the video-host iframes of a document
HostFrames(doc) == SelectSeq(Elements(doc), IsYoutubeIframe)

\* an element other than a video-host iframe that refers to a video
RefersToVideo(n) ==
    /\ ~IsYoutubeIframe(n)
    /\ \/ n.dataName \in {"data-youtube-id", "data-youtube-url"}
       \/ n.ref.kind \in {"yt-embed", "yt-watch", "yt-short", "yt-nocookie"}
       \/ MatchesIn(n) # <<>>

IsWrapper(n, kind) == n.tag = "div" /\ {"embed-wrapper", kind} \subseteq n.cls

\* the embed wrappers of one kind in a result's content
Wrappers(content, kind) == SelectSeq(content, LAMBDA n : IsWrapper(n, kind))

\* the call fetched its page with the plain attempt and has returned
ReturnedUnblocked(s) ==
    s.pc = "returned" /\ s.plainErr = NoPlainErr /\ s.puppeteerCalls = 0

\* the wrapper holds one frame, with the source of the page's iframe
FrameOf(w, frame) ==
    /\ Len(w.kids) = 1 /\ w.kids[1].tag = "iframe"
    /\ w.kids[1].ref = frame.ref

FrameBefore(doc, i) ==
    LET ps == AllPaths(doc) IN
    /\ Len(ps[i]) > 1
    /\ \E j \in 1..(i - 1) :
           IsPrefix(Parent(ps[i]), ps[j]) /\ NodeAt(doc, ps[j]).tag = "iframe"

C13_Unchanged ==
    \A c \in calls :
        LET s == st[c] IN
        (s.pc = "returned" /\ s.embeds = <<>>)
        => /\ s.result[1].content = s.article[1].content
           /\ \A i \in DOMAIN s.result[1].content :
                  "embed-wrapper" \notin s.result[1].content[i].cls

\* C14: when reader.parse() returns null, parseArticle throws the
\* could-not-extract error and returns no result, whatever the embed list
\* holds; reconciliation runs, and a result exists, only for a call whose
\* extraction returned an article.
C14_ExtractionFailed ==
    /\ [](\A c \in calls :
            LET s == st[c] IN
            /\ s.pc \in {"reconcile", "returned"}
                 => s.article # <<>> /\ s.err = NoError
            /\ s.result # <<>> => s.pc = "returned"
            /\ s.err.kind = "ExtractionFailed"
                 => /\ s.pc = "failed" /\ s.result = <<>> /\ s.article = <<>>
                    /\ s.err = ExtractionFailed)
    /\ [][\A c \in calls :
            (st[c].pc = "readability" /\ st'[c] # st[c] /\ st'[c].article = <<>>)
            => /\ st'[c].pc = "failed" /\ st'[c].err = ExtractionFailed
               /\ st'[c].result = <<>> /\ st'[c].embeds = st[c].embeds]_vars

C14_Witness ==
    \E c \in calls :
        /\ st[c].pc = "failed" /\ st[c].err = ExtractionFailed
        /\ Len(st[c].embeds) >= 2 /\ st[c].result = <<>>

-----------------------------------------------------------------------------
(* Browser automation controller: failures *)

\* the positions of the modal dismissal and of the content-ready wait
BestEffort == {"modal", "escape", "bodyclick", "scroll", "waitsel"}

\* C15: no exception inside the modal dismissal or the content-ready wait
\* makes the render fail: each step of these phases leaves the render
\* without an error and on its way to the capture step, and once an
\* exception was caught there the render returns HTML exactly when
\* page.content() returned it and otherwise throws the error of
\* page.content().
C15_BestEffort ==
    /\ [](\A c \in calls :
            LET s == st[c] IN
            /\ s.rpc \in BestEffort \cup {"capture"} => s.rerr = <<>>
            /\ s.swallowed
                 => /\ s.rpc \in BestEffort
                               \cup {"capture", "finally", "settle", "done"}
                    /\ s.rpc \in {"finally", "settle", "done"}
                         => /\ (s.rerr = <<>>) <=> (s.captured # None)
                            /\ s.rerr # <<>>
                                 => \E m \in DriverMsgs : s.rerr = Wrapped(m)
                    /\ s.rpc = "done"
                         => (s.returned = "html" <=> s.captured # None))
    /\ [][\A c \in calls :
            (st[c].rpc \in BestEffort /\ st'[c] # st[c])
            => /\ st'[c].rpc \in BestEffort \cup {"capture"}
               /\ st'[c].pc = "render" /\ st'[c].rerr = <<>>]_vars

C15_Witness ==
    \E c \in calls :
        /\ st[c].swallowed /\ st[c].rpc = "done"
        /\ st[c].returned = "html" /\ st[c].captured \in RenderedHtmls

\* message m holds message part as a run of consecutive tokens
Contains(m, part) ==
    \E i \in 0..(Len(m) - Len(part)) : SubSeq(m, i + 1, i + Len(part)) = part

NoResponseMsg == <<"No response received from page">>

\* the message fetchWithPuppeteer threw is that of a NoResponse, HttpError
\* or ChallengeTimeout failure
IsHttpError(m) == Contains(m, <<"HTTP ">>) /\ Contains(m, <<". Page content: ">>)

FatalFailure(m) ==
    Contains(m, NoResponseMsg) \/ IsHttpError(m) \/ Includes(m, TimeoutToken)

\* C16 as stated: whenever the render failed with NoResponse, HttpError or
\* ChallengeTimeout, the error parseArticle raises contains the message
\* the render threw.
C16_Original ==
    \A c \in calls :
        LET s == st[c] IN
        (s.rpc = "done" /\ s.returned = "error" /\ FatalFailure(s.rerr))
        => s.pc = "failed" /\ Contains(s.err.msg, s.rerr)

\* C16 amended: whenever the render failed with NoResponse, HttpError or
\* ChallengeTimeout, parseArticle raises an error that contains the message
\* of the plain attempt's error; it also contains the message the render
\* threw unless that message contains "500" (status 500, or a page-text
\* snippet with 500 in it), in which case it is the anti-bot error, which
\* does not carry the render's message.
C16_Enriched ==
    \A c \in calls :
        LET s == st[c] IN
        (s.rpc = "done" /\ s.returned = "error" /\ FatalFailure(s.rerr))
        => /\ s.pc = "failed"
           /\ Contains(s.err.msg, s.plainErr.msg)
           /\ IF Includes(s.rerr, "500")
              THEN s.err.kind = "LikelyAntiBot" /\ ~Contains(s.err.msg, s.rerr)
              ELSE /\ s.err.kind = "BrowserAutomationFailed"
                   /\ Contains(s.err.msg, s.rerr)

C16_Witness ==
    \E c \in calls :
        LET s == st[c] IN
        /\ s.rpc = "done" /\ s.returned = "error"
        /\ Contains(s.rerr, NoResponseMsg)
        /\ s.pc = "failed" /\ s.err.kind = "BrowserAutomationFailed"
        /\ Contains(s.err.msg, s.rerr)

C20_AfterPlainFailure ==
    /\ [](\A c \in calls :
            LET s == st[c] IN
            /\ (s.launches > 0 \/ s.puppeteerCalls > 0 \/ s.rpc # "idle")
                 => /\ s.plainErr \in PlainFailures /\ s.plainAttempts = 1
                    /\ s.pc \notin {"start", "plain"}
            /\ s.plainErr = NoPlainErr => s.launches = 0 /\ s.browser = 0)
    /\ [](\A i \in DOMAIN sessions :
            st[sessions[i].owner].plainErr \in PlainFailures)

C20_Witness ==
    \E c \in calls :
        /\ st[c].launches = 1 /\ st[c].plainErr.statusCode = "403"
        /\ st[c].rpc = "setup"

-----------------------------------------------------------------------------
(* Concurrent calls *)

\* the embed list and the set of post identifiers the eight strategies
\* yield for a document, run without interruption
DetectAll(doc) ==
    LET y == Youtube5(doc, Youtube4(doc, Youtube3(doc,
                 Youtube2(doc, Youtube1(doc, <<>>)))))
    IN Twitter3(doc, Twitter2(doc, Twitter1(doc, [embeds |-> y, found |-> {}])))

\* the outcome of a call is the one its own inputs give: its document is
\* that of the HTML it fetched, its embed list and identifier set are those
\* of its document, its result is the reconciliation of its own article
\* and embeds, and its error is that of its own failure
OwnOutcome(s) ==
    /\ s.pc \in {"youtube1", "youtube2", "youtube3", "youtube4", "youtube5",
                 "twitter1", "twitter2", "twitter3", "readability",
                 "reconcile", "returned"}
         => /\ s.doc = DocOf(s.html)
            /\ s.html = IF s.plainErr = NoPlainErr THEN "plain-html"
                        ELSE s.captured
    /\ (s.pc \in {"readability", "reconcile", "returned"}
          \/ s.err = ExtractionFailed)
         => /\ s.embeds = DetectAll(s.doc).embeds
            /\ s.foundTweetIds = DetectAll(s.doc).found
    /\ s.pc = "returned"
         => s.result[1].content = Reconciled(s.article[1].content, s.embeds)
    /\ s.pc = "failed" => s.err # NoError
    /\ s.returned = "error"
         => s.pc = "failed" /\ s.err = EscalationError(s.rerr, s.plainErr)
    /\ s.err.kind = "FetchFailed" => s.err = FetchFailed(s.plainErr)

\* C18: with two calls in progress that interleave at their awaits, a step
\* of one call changes nothing of the other call, the module-level state
\* (puppeteer, isServerless) never changes, and each call ends with the
\* document, embed list, identifier set, result or error that its own URL,
\* page and failures give.
C18_Isolation ==
    /\ [](\A c \in calls : OwnOutcome(st[c]))
    /\ [][/\ env' = env /\ installed' = installed /\ calls' = calls
          /\ \A c, d \in calls :
                 (c # d /\ st'[c] # st[c]) => st'[d] = st[d]]_vars

C18_Witness ==
    /\ st[1].pc = "returned" /\ st[2].pc = "returned"
    /\ st[1].plainErr = NoPlainErr /\ st[2].captured = "rendered-html-1"
    /\ st[1].embeds # <<>> /\ st[2].foundTweetIds # {}
    /\ st[1].result # st[2].result

\* C19: each session belongs to the one call that launched it: the calls
\* that hold a session hold different ones, a call holds the session it
\* launched, there are as many sessions as calls whose launch resolved
\* (one launch per render call at most), and a session is closed only by a
\* step of its owner, from the finally block.
C19_OwnSession ==
    /\ [](/\ \A c \in calls :
               LET s == st[c] IN
               /\ s.launches <= s.puppeteerCalls /\ s.puppeteerCalls <= 1
               /\ (s.browser # 0) <=> (s.launches = 1)
               /\ s.browser # 0
                    => s.browser \in DOMAIN sessions
                       /\ sessions[s.browser].owner = c
               /\ s.rpc \in {"setup", "goto", "detect", "interact", "loop",
                             "final", "snippet", "httpcheck", "modal",
                             "escape", "bodyclick", "scroll", "waitsel",
                             "capture"}
                    => s.browser # 0 /\ sessions[s.browser].state = "open"
          /\ \A c, d \in calls :
               (c # d /\ st[c].browser # 0) => st[c].browser # st[d].browser
          /\ Len(sessions) = Cardinality({ c \in calls : st[c].launches = 1 }))
    /\ [][\A i \in DOMAIN sessions :
            sessions'[i] # sessions[i]
            => LET o == sessions[i].owner IN
               /\ st[o].rpc = "finally" /\ st[o].browser = i
               /\ st'[o].closeCalls = st[o].closeCalls + 1
               /\ \A d \in calls \ {o} : st'[d] = st[d]]_vars

C19_Witness ==
    /\ Len(sessions) = 2
    /\ sessions[1].state = "open" /\ sessions[2].state = "open"
    /\ st[1].rpc = "loop" /\ st[2].rpc = "loop"
    /\ st[1].browser # st[2].browser

-----------------------------------------------------------------------------
(* Order of the stages *)

\* the stage of parseArticle a position belongs to
StageOf(pc) ==
    CASE pc = "start" -> 1
      [] pc \in {"plain", "render"} -> 2
      [] pc = "parse" -> 3
      [] pc \in {"youtube1", "youtube2", "youtube3", "youtube4", "youtube5",
                 "twitter1", "twitter2", "twitter3"} -> 4
      [] pc = "readability" -> 5
      [] pc = "reconcile" -> 6
      [] pc = "returned" -> 7
      [] pc = "failed" -> 8

\* C21: a call moves through the stages validate, fetch, parse, detect,
\* extract, reconcile, return in that order, one stage at a time and never
\* back, or fails; when the extraction collaborator is invoked the embed
\* list is the complete list of the document and extraction leaves it
\* alone; reconciliation starts only with the article extraction returned.
C21_StageOrder ==
    /\ [](\A c \in calls :
            LET s == st[c] IN
            /\ s.pc \in {"readability", "reconcile", "returned"}
                 => s.embeds = DetectAll(s.doc).embeds
            /\ s.pc \in {"start", "plain", "render", "parse"} => s.embeds = <<>>
            /\ s.pc \in {"reconcile", "returned"} <=> s.article # <<>>
            /\ s.pc = "returned" <=> s.result # <<>>)
    /\ [][\A c \in calls :
            LET a == StageOf(st[c].pc)
                b == StageOf(st'[c].pc)
            IN /\ b = a \/ b = a + 1 \/ st'[c].pc = "failed"
               /\ a \in {7, 8} => st'[c] = st[c]
               /\ (a = 5 /\ b = 6) => st'[c].embeds = st[c].embeds]_vars

C21_Witness ==
    \E c \in calls :
        /\ st[c].pc = "returned" /\ st[c].embeds # <<>>
        /\ st[c].plainAttempts = 1 /\ st[c].puppeteerCalls = 1

-----------------------------------------------------------------------------
(* The challenge-resolution loop *)

\* the markers the loop looks for are on the page
MarkersPresent(pg) ==
    \/ pg.body \in {"checking your browser", "please wait",
                    "ddos protection by cloudflare", "verify you are human"}
    \/ pg.justAMoment

\* a step of call c that is a poll of the loop: the page was read
IsPoll(c) == st[c].rpc = "loop" /\ st'[c].elapsed # st[c].elapsed

C23_PollTiming ==
    [][\A c \in calls :
         IsPoll(c)
         => /\ st'[c].pollAt <= 30
            /\ st[c].pollAt # 0 => st'[c].pollAt - st[c].pollAt = 2]_vars

-----------------------------------------------------------------------------
(* Termination of a render call *)

\* the place of a position of fetchWithPuppeteer in its code
RenderPhase(rpc) ==
    CASE rpc = "idle" -> 0
      [] rpc = "launch" -> 1
      [] rpc = "setup" -> 2
      [] rpc = "goto" -> 3
      [] rpc = "detect" -> 4
      [] rpc = "interact" -> 5
      [] rpc = "loop" -> 6
      [] rpc = "final" -> 7
      [] rpc = "snippet" -> 8
      [] rpc = "httpcheck" -> 9
      [] rpc = "modal" -> 10
      [] rpc = "escape" -> 11
      [] rpc = "bodyclick" -> 12
      [] rpc = "scroll" -> 13
      [] rpc = "waitsel" -> 14
      [] rpc = "capture" -> 15
      [] rpc = "finally" -> 16
      [] rpc = "settle" -> 17
      [] rpc = "done" -> 18

\* C24: a render call whose driver primitives all return or throw settles,
\* with HTML or with an error. Every step moves it to a later phase, except
\* an iteration of the challenge loop, which begins less than 30 s into the
\* loop and adds 2 s or more to the elapsed time, and an iteration of the
\* modal scan, which moves to the next of the 9 selectors; the scan ends at
\* its first click, so at most one close button is clicked.
C24_Terminates ==
    /\ (st[1].rpc = "launch") ~> (st[1].rpc = "done" /\ st[1].returned # "no")
    /\ [](st[1].closeClicks <= 1 /\ st[1].sel <= 9
          /\ (st[1].rpc = "done"
                => \/ st[1].returned = "html" /\ st[1].html = st[1].captured
                   \/ st[1].returned = "error" /\ st[1].pc = "failed"))
    /\ [][LET s == st[1]
              n == st'[1]
          IN  \/ RenderPhase(n.rpc) > RenderPhase(s.rpc)
              \/ /\ s.rpc = "loop" /\ n.rpc = "loop"
                 /\ s.elapsed < 30 /\ n.elapsed >= s.elapsed + 2
              \/ /\ s.rpc = "modal" /\ n.rpc = "modal"
                 /\ n.sel = s.sel + 1 /\ n.closeClicks = s.closeClicks]_vars

C24_Witness ==
    /\ st[1].rpc = "done" /\ st[1].returned = "html"
    /\ st[1].timedOut /\ st[1].elapsed >= 30
    /\ st[1].closeClicks = 1

-----------------------------------------------------------------------------
(* Determinism and order of detection *)

\* the words a fallback identifier keeps of the text of a quote
LeadingText(n) ==
    LET w == TextContent(n) IN
    SubSeq(w, 1, IF Len(w) < TextCut THEN Len(w) ELSE TextCut)

\* the element has a descendant link with a parsable status URL
HasStatusLink(n) ==
    \E k \in NodesOf(n.kids) : k.tag = "a" /\ StatusMatch(k.ref)

\* the position of a call in the sequence of the strategies
DetectedUpTo(s) ==
    CASE s.pc = "youtube1" -> 0
      [] s.pc = "youtube2" -> 1
      [] s.pc = "youtube3" -> 2
      [] s.pc = "youtube4" -> 3
      [] s.pc = "youtube5" -> 4
      [] s.pc = "twitter1" -> 5
      [] s.pc = "twitter2" -> 6
      [] s.pc = "twitter3" -> 7
      [] OTHER -> 8

KindAt(pc) ==
    IF pc \in {"youtube1", "youtube2", "youtube3", "youtube4", "youtube5"}
    THEN "youtube" ELSE "twitter"

\* the paths of a document that come before path q in document order
Before(doc, p, q) ==
    \E i, j \in DOMAIN AllPaths(doc) :
        i < j /\ AllPaths(doc)[i] = p /\ AllPaths(doc)[j] = q

\* C26: each strategy puts the descriptors it adds behind all those of the
\* strategies before it, in the order video strategies 1 to 5, then
\* social-post strategies 1 to 3, wherever their elements are in the
\* document, so that every video descriptor is before every social-post
\* descriptor.
C26_DiscoveryOrder ==
    /\ [](\A c \in calls :
            \A i, j \in DOMAIN st[c].embeds :
                (st[c].embeds[i].type = "youtube"
                   /\ st[c].embeds[j].type = "twitter") => i < j)
    /\ [][\A c \in calls :
            LET old == st[c].embeds
                new == st'[c].embeds
            IN st'[c].pc # st[c].pc
               => /\ Len(new) >= Len(old)
                  /\ \A i \in DOMAIN old : new[i].element = old[i].element
                                           /\ new[i].type = old[i].type
                  /\ \A j \in (Len(old) + 1)..Len(new) :
                        new[j].type = KindAt(st[c].pc)]_vars

C26_Witness ==
    \E c \in calls :
        LET s == st[c] IN
        /\ s.pc = "readability" /\ Len(s.embeds) = 3
        /\ s.embeds[1].type = "youtube" /\ s.embeds[2].type = "youtube"
        /\ s.embeds[3].type = "twitter"
        /\ Before(s.doc, s.embeds[3].element, s.embeds[2].element)
        /\ Before(s.doc, s.embeds[2].element, s.embeds[1].element)

\* C27: a step of detection leaves every descriptor already in the embed
\* list as it was, at its position, and only adds behind them; a candidate
\* whose identifier was in the dedup set before the step (the videoId of
\* a descriptor in the list, a member of foundTweetIds) adds nothing, and
\* within a step no identifier is added twice.
C27_AppendOnly ==
    [][\A c \in calls :
         LET old == st[c].embeds
             new == st'[c].embeds
             added == (Len(old) + 1)..Len(new)
         IN /\ Len(new) >= Len(old)
            /\ SubSeq(new, 1, Len(old)) = old
            /\ \A j \in added :
                 /\ new[j].videoId # None => ~HasVideoId(old, new[j].videoId)
                 /\ new[j].type = "twitter"
                      => new[j].tweetId \notin st[c].foundTweetIds
                         /\ new[j].tweetId \in st'[c].foundTweetIds
                 /\ \A k \in added :
                      (k # j /\ new[j].videoId # None)
                      => new[k].videoId # new[j].videoId
                 /\ \A k \in added :
                      (k # j /\ new[j].type = "twitter")
                      => new[k].tweetId # new[j].tweetId
            /\ st[c].pc \in {"twitter1", "twitter2", "twitter3"}
                 => st[c].foundTweetIds \subseteq st'[c].foundTweetIds]_vars

C27_Witness ==
    \E c \in calls :
        LET s == st[c] IN
        /\ s.pc = "readability"
        /\ s.doc = <<DataDiv, WatchLink, Tweet>>
        /\ Len(s.embeds) = 2
        /\ s.embeds[1].videoId = V1 /\ s.embeds[1].isGenerated
        /\ s.embeds[2].tweetId = TweetId("", <<T1>>)

-----------------------------------------------------------------------------
(* The full-text sweep *)

\* C28: the sweep adds a descriptor only for a video identifier that no
\* descriptor of an earlier strategy stands for, at most one for each
\* identifier, and every descriptor it adds is a synthesized frame.
C28_Sweep ==
    [][\A c \in calls :
         LET old == st[c].embeds
             new == st'[c].embeds
             added == (Len(old) + 1)..Len(new)
         IN (st[c].pc = "youtube5" /\ st'[c].pc = "twitter1")
            => \A j \in added :
                 /\ new[j].videoId \in VideoIds
                 /\ \A i \in DOMAIN old :
                      SourceId(st[c].doc, old[i]) # new[j].videoId
                 /\ \A k \in added : k # j => new[k].videoId # new[j].videoId
                 /\ new[j].isGenerated
                 /\ new[j].html = embedHtml(new[j].videoId)]_vars

-----------------------------------------------------------------------------
(* The reconciled content *)

\* the class that tags a wrapper with the kind of its descriptor
KindClass(e) == IF e.type = "youtube" THEN "embed-youtube" ELSE "embed-twitter"

\* C29: the content of the result is the distilled content, unchanged,
\* followed by one wrapper for each descriptor of the embed list, in the
\* order of the list, each tagged with the kind of its descriptor; no
\* wrapper is before or inside the distilled content.
C29_Appended ==
    \A c \in calls :
        LET s == st[c]
            content == s.result[1].content
            distilled == s.article[1].content
            n == Len(distilled)
        IN s.pc = "returned"
           => /\ Len(content) = n + Len(s.embeds)
              /\ SubSeq(content, 1, n) = distilled
              /\ \A i \in DOMAIN s.embeds :
                    IsWrapper(content[n + i], KindClass(s.embeds[i]))

\* C30: for every frame element of the page whose source matches a
\* video-host pattern, the content of the result holds a video wrapper
\* whose frame has the source of that frame.
C30_FramesReappear ==
    \A c \in calls :
        LET s == st[c]
            frames == HostFrames(s.doc)
            wrappers == Wrappers(s.result[1].content, "embed-youtube")
        IN s.pc = "returned"
           => \A i \in DOMAIN frames :
                 \E j \in DOMAIN wrappers : FrameOf(wrappers[j], frames[i])

-----------------------------------------------------------------------------
(* Social-post wrappers *)

\* C31: no social-post wrapper of the content of a result holds a
\* widget-loader script element, at any depth, whichever strategy captured
\* the markup and whether or not the markup is that of a promoted parent.
C31_NoLoaderScript ==
    \A c \in calls :
        LET s == st[c]
            wrappers == Wrappers(s.result[1].content, "embed-twitter")
        IN s.pc = "returned"
           => \A j \in DOMAIN wrappers :
                 \A n \in NodesOf(wrappers[j].kids) : ~IsWidgetScript(n)

\* the children of the captured markup that reconciliation moves
Moved(e) == SelectSeq(e.html, LAMBDA n : n.tag # "script")

\* the element holds a link to a social host
HasSocialLink(n) ==
    \E k \in NodesOf(n.kids) :
        k.tag = "a" /\ k.ref.kind \in {"tw-status", "tw-profile", "tw-widgets",
                                       "x-status"}

\* the link reconciliation makes from a post identifier
IsFallbackLink(n) == n.tag = "a" /\ n.text = <<"View on Twitter">>

\* C32: in the wrapper of a social-post descriptor, a quote element that
\* is a direct child of the captured markup has the fallback link appended
\* exactly when it holds no link to a social host and the identifier of the
\* descriptor was parsed from a status URL; otherwise its children are
\* those it had, and no link is appended for a content-hash or
\* frame-source identifier.
C32_FallbackLink ==
    \A c \in calls :
        LET s == st[c]
            n == Len(s.article[1].content)
        IN s.pc = "returned"
           => \A i \in DOMAIN s.embeds :
                LET e == s.embeds[i]
                    w == s.result[1].content[n + i]
                    moved == Moved(e)
                IN e.type = "twitter"
                   => /\ Len(w.kids) = Len(moved)
                      /\ \A k \in DOMAIN moved :
                           moved[k].tag = "blockquote"
                           => IF ~HasSocialLink(moved[k]) /\ e.tweetId.pre = ""
                              THEN /\ Len(w.kids[k].kids) = Len(moved[k].kids) + 1
                                   /\ SubSeq(w.kids[k].kids, 1, Len(moved[k].kids))
                                        = moved[k].kids
                                   /\ IsFallbackLink(w.kids[k].kids[Len(w.kids[k].kids)])
                                   /\ w.kids[k].kids[Len(w.kids[k].kids)].ref
                                        = Url("tw-status", e.tweetId.body[1])
                              ELSE w.kids[k].kids = moved[k].kids

C32_Witness ==
    \E c \in calls :
        LET s == st[c] IN
        /\ s.pc = "returned"
        /\ s.doc = <<QuoteFrame, TextTweet>>
        /\ \E j \in DOMAIN s.result[1].content :
              LET w == s.result[1].content[j] IN
              /\ IsWrapper(w, "embed-twitter")
              /\ w.kids # <<>> /\ w.kids[1].tag = "blockquote"
              /\ w.kids[1].kids # <<>>
              /\ IsFallbackLink(w.kids[1].kids[Len(w.kids[1].kids)])

\* the frames among an element and its descendants
FramesIn(n) == {k \in NodesOf(<<n>>) : k.tag = "iframe"}

\* C33: every video wrapper of the content of a result holds exactly one
\* frame element, as its only child, and none was built by the raw-markup
\* branch: each video descriptor got a frame located in its markup or
\* made from its identifier.
C33_OneFrame ==
    \A c \in calls :
        LET s == st[c]
            n == Len(s.article[1].content)
        IN s.pc = "returned"
           => /\ \A i \in DOMAIN s.embeds :
                   s.embeds[i].type = "youtube"
                   => LET w == s.result[1].content[n + i] IN
                      /\ IsWrapper(w, "embed-youtube")
                      /\ w.style # "center"
                      /\ Len(w.kids) = 1 /\ w.kids[1].tag = "iframe"
                      /\ Cardinality(FramesIn(w)) = 1
              /\ \A j \in n + 1 .. Len(s.result[1].content) :
                   IsWrapper(s.result[1].content[j], "embed-youtube")
                   => Cardinality(FramesIn(s.result[1].content[j])) = 1

\* a wrapped link, whose markup holds no frame, got a frame made from
\* its identifier
C33_Witness ==
    \E c \in calls :
        LET s == st[c] IN
        /\ s.pc = "returned"
        /\ \E i \in DOMAIN s.embeds :
              LET e == s.embeds[i]
                  w == s.result[1].content[Len(s.article[1].content) + i]
              IN /\ e.type = "youtube" /\ ~e.isGenerated
                 /\ \A k \in NodesOf(e.html) : k.tag # "iframe"
                 /\ w.kids = <<Styled(CreatedFrame(e.videoId), "fill")>>

\* the quote element strategy 3 pairs with the script at p, or null
PairedQuote(doc, p) ==
    LET before == PrevSibling(doc, p, IsBlockquote) IN
    IF before # NullPath THEN before ELSE NextSibling(doc, p, IsBlockquote)

\* the widget-loader scripts of a document that strategy 3 pairs with a
\* quote carrying the social-embed class
PairedScripts(doc) ==
    { i \in DOMAIN Select(doc, <<>>, IsWidgetScript) :
        LET q == PairedQuote(doc, Select(doc, <<>>, IsWidgetScript)[i]) IN
        q # NullPath /\ "twitter-tweet" \in NodeAt(doc, q).cls }

\* C34: when social-post strategy 3 starts, every quote it can pair with a
\* widget-loader script is one strategy 1 selects and its identifier is in
\* the dedup set; and the strategy leaves the embed list and the dedup set
\* as it found them.
C34_ScriptFirstAddsNothing ==
    /\ [](\A c \in calls :
            st[c].pc = "twitter3"
            => \A i \in PairedScripts(st[c].doc) :
                 LET q == PairedQuote(st[c].doc,
                                      Select(st[c].doc, <<>>, IsWidgetScript)[i])
                 IN /\ IsTweetQuote(NodeAt(st[c].doc, q))
                    /\ QuoteTweetId(st[c].doc, q) \in st[c].foundTweetIds)
    /\ [][\A c \in calls :
            st[c].pc = "twitter3" /\ st'[c].pc # "twitter3"
            => /\ st'[c].embeds = st[c].embeds
               /\ st'[c].foundTweetIds = st[c].foundTweetIds]_vars

\* strategy 3 has run on a page where it paired a script with a quote
C34_Witness ==
    \E c \in calls :
        /\ st[c].pc = "readability"
        /\ PairedScripts(st[c].doc) # {}
        /\ \E i \in DOMAIN st[c].embeds : st[c].embeds[i].type = "twitter"

\* C35 as stated: whenever a step of the handling of a detected challenge
\* raised an exception, the render has failed with the
\* did-not-complete-in-time error.
C35_Original ==
    \A c \in calls :
        LET s == st[c] IN
        (s.raised # "" /\ s.rpc = "done")
        => s.returned = "error" /\ Includes(s.rerr, TimeoutToken)

\* C35 amended: an exception raised while a detected challenge is handled,
\* other than one of the attempt to find and click a verification control
\* (which is swallowed), makes the render fail whether or not the time
\* budget was used up: it returns no HTML and ends with the
\* did-not-complete-in-time error, or with the driver's error when the
\* read of the page text for that error itself threw.
C35_HandlerFails ==
    \A c \in calls :
        LET s == st[c] IN
        s.raised \in {"interact", "poll", "final"}
        => /\ s.captured = None /\ s.returned # "html"
           /\ s.rpc \in {"snippet", "finally", "settle", "done"}
           /\ s.rpc = "done"
                => /\ s.returned = "error"
                   /\ \/ Includes(s.rerr, TimeoutToken)
                      \/ \E m \in DriverMsgs : s.rerr = Wrapped(m)

\* a poll threw inside the time budget and the render failed with the
\* did-not-complete-in-time error
C35_Witness ==
    \E c \in calls :
        LET s == st[c] IN
        /\ s.raised = "poll" /\ ~s.timedOut /\ s.elapsed < maxWaitTime
        /\ s.rpc = "done" /\ s.returned = "error"
        /\ Includes(s.rerr, TimeoutToken)

\* C36: a call that has invoked the browser rendering runs where none of
\* the serverless variables is set, neither those the module tests when it
\* loads the driver nor those fetchWithPuppeteer tests; and every
\* page.goto of the call was made with the 30-second timeout and the
\* networkidle2 wait, never with the 20-second domcontentloaded ones.
C36_FullBudget ==
    \A c \in calls :
        LET s == st[c] IN
        /\ (s.puppeteerCalls > 0 \/ s.pc = "render")
           => ~isServerless /\ ~renderIsServerless /\ puppeteer # None
        /\ s.nav # NoNav
           => s.nav = [waitUntil |-> "networkidle2", timeout |-> 30000]

\* a rendering call has navigated
C36_Witness ==
    \E c \in calls :
        /\ st[c].pc = "render" /\ st[c].puppeteerCalls = 1
        /\ st[c].rpc = "detect"
        /\ st[c].nav = [waitUntil |-> "networkidle2", timeout |-> 30000]

\* the fields of an article other than its content
MetaOf(a) ==
    [title |-> a.title, excerpt |-> a.excerpt, byline |-> a.byline,
     siteName |-> a.siteName]

\* C39: the title, excerpt, byline and siteName of a returned result are
\* those of the article the extraction returned, one of the values the
\* extraction can return; the step that builds the result changes nothing
\* of the call but its position and its result, and the result differs
\* from the article in its content at most.
C39_MetadataKept ==
    /\ [](\A c \in calls :
            st[c].pc = "returned"
            => /\ MetaOf(st[c].result[1]) = MetaOf(st[c].article[1])
               /\ MetaOf(st[c].result[1]) \in Metas
               /\ DOMAIN st[c].result[1] = DOMAIN st[c].article[1])
    /\ [][\A c \in calls :
            st[c].pc = "reconcile" /\ st'[c].pc # "reconcile"
            => /\ st'[c].article = st[c].article
               /\ MetaOf(st'[c].result[1]) = MetaOf(st[c].article[1])
               /\ st'[c] = [st[c] EXCEPT !.pc = st'[c].pc,
                                         !.result = st'[c].result]]_vars

\* a result whose content was extended with a wrapper and whose byline
\* and site name are the extracted ones
C39_Witness ==
    \E c \in calls :
        LET s == st[c] IN
        /\ s.pc = "returned"
        /\ s.result[1].byline = "Author" /\ s.result[1].siteName = "Site"
        /\ s.result[1].content # s.article[1].content

\* the kinds of error parseArticle raises for a page it could not fetch
FetchKinds ==
    {"FetchFailed", "AutomationUnavailable", "BrowserAutomationFailed",
     "LikelyAntiBot"}

\* C38: a request without a url is answered 400 and parseArticle is not
\* called; otherwise parseArticle is called and the answer is 400 for an
\* invalid URL and for a failed extraction, 403 only for a fetch failure
\* whose message contains 403, 500 for every other failure, each with the
\* message of the error, and 200 with the result when parseArticle returned.
C38_StatusMapping ==
    \A c \in calls :
        LET s == st[c] IN
        /\ s.pc = "request" => ~s.invoked /\ s.res = NoRes
        /\ ~s.hasUrl
           => /\ ~s.invoked /\ s.plainAttempts = 0 /\ s.puppeteerCalls = 0
              /\ s.pc \in {"request", "responded"}
              /\ s.pc = "responded" => s.res.status = 400
        /\ (s.hasUrl /\ s.pc = "responded")
           => /\ s.invoked
              /\ s.res.status \in {200, 400, 403, 500}
              /\ s.result # <<>>
                 => s.res = [status |-> 200, error |-> <<>>,
                             article |-> s.result]
              /\ s.result = <<>>
                 => /\ s.err.kind # None
                    /\ s.res.error = s.err.msg /\ s.res.article = <<>>
                    /\ s.err.kind \in {"InvalidUrl", "ExtractionFailed"}
                       => s.res.status = 400
                    /\ s.res.status = 403
                       => /\ s.err.kind \in FetchKinds
                          /\ Includes(s.err.msg, "403")
                    /\ (/\ s.err.kind \notin {"InvalidUrl", "ExtractionFailed"}
                        /\ ~(s.err.kind \in FetchKinds
                             /\ Includes(s.err.msg, "403")))
                       => s.res.status = 500

\* a plain 403 without automation is answered 500, a rendered HTTP 403 is
\* answered 403
C38_Witness ==
    \E c \in calls :
        LET s == st[c] IN
        /\ s.pc = "responded" /\ s.res.status = 403
        /\ s.err.kind = "BrowserAutomationFailed"

ExtractionMsg == <<"Could not extract article content from this URL">>

====
